---- MODULE Spec2Model ----
(***************************************************************************)
(* A model of the nameindexer index codec (index.go and its string-field   *)
(* successor) and of the ClickHouse/S3 index repository (indexrepo).       *)
(*                                                                         *)
(* Go strings are modelled as sequences of one-character strings, ordered  *)
(* bytewise as Go orders them.  A time.Time is a record of its UTC civil   *)
(* fields.  The S3 bucket is a function from index keys to payloads and    *)
(* the MergeTree table is a bag of rows (no de-duplication).               *)
(***************************************************************************)
EXTENDS Integers, Sequences, FiniteSets, Bags, TLC

(***************************************************************************)
(* Program constants (index.go).                                           *)
(***************************************************************************)
DateLength == 6
FillerLength == 2
DataTypeLength == 20
DIDLength == 64
TimeLength == 6
AddressLength == 40
TotalLength == DIDLength + DateLength + FillerLength + DataTypeLength + TimeLength + AddressLength + DIDLength + FillerLength
DateMax == 999999
DefaultPrimaryFiller == <<"M", "M">>
DefaultSecondaryFiller == <<"0", "0">>
DataTypePadding == "!"

(***************************************************************************)
(* Go string primitives.                                                   *)
(***************************************************************************)
\* The bytes that occur in the model, in ascending byte order.
Chars == <<"!", "-", ".", "/", "0", "1", "2", "3", "4", "5", "6", "7", "8", "9", ":",
           "A", "B", "C", "D", "E", "F", "M", "T", "U", "V", "Z", "_",
           "a", "b", "c", "d", "e", "f", "i", "n", "o", "p", "s", "t", "v", "x">>

Ord(c) == CHOOSE i \in 1..Len(Chars) : Chars[i] = c

\* Go's < on strings: bytewise lexicographic order.
StrLess(a, b) ==
    \E i \in 1..(Len(b)) :
        /\ i <= Len(a) + 1
        /\ \A j \in 1..(i - 1) : a[j] = b[j]
        /\ \/ i = Len(a) + 1
           \/ Ord(a[i]) < Ord(b[i])

Min(a, b) == IF a <= b THEN a ELSE b

\* strings.Repeat(c, n)
Repeat(c, n) == [i \in 1..n |-> c]

\* s[from:to] with Go's half-open, 0-based bounds
Slice(s, from, to) == SubSeq(s, from + 1, to)

\* strings.TrimLeft(s, c) for a one-byte cutset
RECURSIVE TrimLeft(_, _)
TrimLeft(s, c) ==
    IF s # <<>> /\ Head(s) = c THEN TrimLeft(Tail(s), c) ELSE s

DecDigits == <<"0", "1", "2", "3", "4", "5", "6", "7", "8", "9">>
LowerHexDigits == <<"0", "1", "2", "3", "4", "5", "6", "7", "8", "9", "a", "b", "c", "d", "e", "f">>
UpperHexDigits == <<"0", "1", "2", "3", "4", "5", "6", "7", "8", "9", "A", "B", "C", "D", "E", "F">>

\* fmt's %d of a non-negative int
RECURSIVE FormatInt(_)
FormatInt(n) ==
    IF n < 10 THEN <<DecDigits[n + 1]>>
    ELSE Append(FormatInt(n \div 10), DecDigits[(n % 10) + 1])

\* fmt's %0<w>d of a non-negative int: zero padding never truncates
FormatPadded(n, w) ==
    LET d == FormatInt(n)
    IN  IF Len(d) >= w THEN d ELSE Repeat("0", w - Len(d)) \o d

\* fmt's %x of a non-negative int
RECURSIVE FormatHexInt(_)
FormatHexInt(n) ==
    IF n < 16 THEN <<LowerHexDigits[n + 1]>>
    ELSE Append(FormatHexInt(n \div 16), LowerHexDigits[(n % 16) + 1])

\* fmt's %0<w>x
FormatHex(n, w) ==
    LET d == FormatHexInt(n)
    IN  IF Len(d) >= w THEN d ELSE Repeat("0", w - Len(d)) \o d

IsDecDigit(c) == \E i \in 1..10 : DecDigits[i] = c
DecValue(c) == (CHOOSE i \in 1..10 : DecDigits[i] = c) - 1
IsHexDigit(c) == \E i \in 1..16 : LowerHexDigits[i] = c \/ UpperHexDigits[i] = c
HexValue(c) == (CHOOSE i \in 1..16 : LowerHexDigits[i] = c \/ UpperHexDigits[i] = c) - 1

RECURSIVE DecFold(_, _)
DecFold(s, acc) ==
    IF s = <<>> THEN acc ELSE DecFold(Tail(s), acc * 10 + DecValue(Head(s)))

RECURSIVE HexFold(_, _)
HexFold(s, acc) ==
    IF s = <<>> THEN acc ELSE HexFold(Tail(s), acc * 16 + HexValue(Head(s)))

\* strconv.Atoi: an optional sign, then at least one decimal digit
Atoi(s) ==
    LET signed == s # <<>> /\ Head(s) \in {"+", "-"}
        body == IF signed THEN Tail(s) ELSE s
    IN  IF body = <<>> \/ \E i \in 1..Len(body) : ~IsDecDigit(body[i])
        THEN [ok |-> FALSE, val |-> 0]
        ELSE [ok |-> TRUE,
              val |-> IF signed /\ Head(s) = "-" THEN 0 - DecFold(body, 0) ELSE DecFold(body, 0)]

\* strconv.ParseUint(s, 16, bits) for the widths the codec writes
ParseUintHex(s) ==
    IF s = <<>> \/ \E i \in 1..Len(s) : ~IsHexDigit(s[i])
    THEN [ok |-> FALSE, val |-> 0]
    ELSE [ok |-> TRUE, val |-> HexFold(s, 0)]

(***************************************************************************)
(* time.Time at second precision: the civil fields in the location of the  *)
(* value and the offset of that location, in whole hours east of UTC.      *)
(***************************************************************************)
\* A time in UTC.
Time(y, mo, d, h, mi, s) ==
    [year |-> y, month |-> mo, day |-> d, hour |-> h, minute |-> mi, second |-> s,
     offset |-> 0]

\* time.Time{}: January 1, year 1, 00:00:00 UTC
ZeroTime == Time(1, 1, 1, 0, 0, 0)


DateNumber(t) == t.year * 10000 + t.month * 100 + t.day
ClockNumber(t) == t.hour * 10000 + t.minute * 100 + t.second

\* t.Before(u) / t.After(u) on UTC civil times
TimeBefore(t, u) ==
    \/ DateNumber(t) < DateNumber(u)
    \/ DateNumber(t) = DateNumber(u) /\ ClockNumber(t) < ClockNumber(u)

TimeAfter(t, u) == TimeBefore(u, t)

IsLeap(y) == (y % 4 = 0 /\ y % 100 # 0) \/ y % 400 = 0

DaysIn(y, mo) ==
    IF mo = 2 THEN (IF IsLeap(y) THEN 29 ELSE 28)
    ELSE IF mo \in {4, 6, 9, 11} THEN 30 ELSE 31

\* time.Date(y, mo, d, h, mi, s, 0, time.UTC) for mo in 1..12, d in 1..31 and a
\* valid clock: a day past the end of the month rolls into the next month.
TimeDate(y, mo, d, h, mi, s) ==
    IF d <= DaysIn(y, mo) THEN Time(y, mo, d, h, mi, s)
    ELSE IF mo = 12 THEN Time(y + 1, 1, d - DaysIn(y, mo), h, mi, s)
    ELSE Time(y, mo + 1, d - DaysIn(y, mo), h, mi, s)

\* t.UTC(): the same instant with its fields in UTC, for an offset of less
\* than a day.
UTC(t) ==
    LET h == t.hour - t.offset
    IN  IF t.offset = 0 THEN t
        ELSE IF h >= 24
        THEN TimeDate(t.year, t.month, t.day + 1, h - 24, t.minute, t.second)
        ELSE IF h >= 0 THEN Time(t.year, t.month, t.day, h, t.minute, t.second)
        ELSE IF t.day > 1
        THEN Time(t.year, t.month, t.day - 1, h + 24, t.minute, t.second)
        ELSE IF t.month > 1
        THEN Time(t.year, t.month - 1, DaysIn(t.year, t.month - 1), h + 24, t.minute, t.second)
        ELSE Time(t.year - 1, 12, 31, h + 24, t.minute, t.second)

\* t.IsZero(): the instant is January 1, year 1, 00:00:00 UTC
IsZero(t) == UTC(t) = ZeroTime

\* ts.UTC().Format("150405")
EncodeTime(ts) ==
    LET utc == UTC(ts)
    IN  FormatPadded(utc.hour, 2) \o FormatPadded(utc.minute, 2) \o FormatPadded(utc.second, 2)

\* time.Parse("150405", s): three 2-digit fields, each range-checked
ParseHhmmss(s) ==
    IF Len(s) # 6 \/ \E i \in 1..Len(s) : ~IsDecDigit(s[i])
    THEN [ok |-> FALSE, hour |-> 0, minute |-> 0, second |-> 0]
    ELSE LET h == DecFold(SubSeq(s, 1, 2), 0)
             mi == DecFold(SubSeq(s, 3, 4), 0)
             sec == DecFold(SubSeq(s, 5, 6), 0)
         IN  IF h >= 24 \/ mi >= 60 \/ sec >= 60
             THEN [ok |-> FALSE, hour |-> 0, minute |-> 0, second |-> 0]
             ELSE [ok |-> TRUE, hour |-> h, minute |-> mi, second |-> sec]

(***************************************************************************)
(* common.Address: 20 bytes, modelled as 40 nibbles.                       *)
(***************************************************************************)
\* Stand-in for the Keccak-256 nibble that EIP-55 uses to pick the case of a
\* hex letter: a fixed function of the address and the position.
ChecksumUpper(addr, i) == (addr[i] + i) % 2 = 0

\* address.Hex(): "0x" and 40 hex digits in EIP-55 mixed case
AddressHex(addr) ==
    <<"0", "x">> \o
    [i \in 1..AddressLength |->
        IF ChecksumUpper(addr, i) THEN UpperHexDigits[addr[i] + 1]
        ELSE LowerHexDigits[addr[i] + 1]]

Has0xPrefix(s) == Len(s) >= 2 /\ s[1] = "0" /\ s[2] \in {"x", "X"}

\* common.IsHexAddress(s): an optional 0x prefix, then exactly 40 hex digits
IsHexAddress(s) ==
    LET body == IF Has0xPrefix(s) THEN Slice(s, 2, Len(s)) ELSE s
    IN  Len(body) = AddressLength /\ \A i \in 1..Len(body) : IsHexDigit(body[i])

\* hex.DecodeString with its error dropped (common.Hex2Bytes): the nibbles of
\* the leading pairs of hex digits, up to the first pair that is not one.
RECURSIVE Hex2Nibbles(_)
Hex2Nibbles(str) ==
    IF Len(str) < 2 \/ ~IsHexDigit(str[1]) \/ ~IsHexDigit(str[2]) THEN <<>>
    ELSE <<HexValue(str[1]), HexValue(str[2])>> \o Hex2Nibbles(Slice(str, 2, Len(str)))

\* common.HexToAddress(s) = BytesToAddress(FromHex(s)): the prefix is dropped,
\* an odd-length string gets a leading "0", what does not decode is lost, and
\* the bytes are cropped from the left or zero-padded on the left to 20.
HexToAddress(s) ==
    LET body == IF Has0xPrefix(s) THEN Slice(s, 2, Len(s)) ELSE s
        even == IF Len(body) % 2 = 1 THEN <<"0">> \o body ELSE body
        b == Hex2Nibbles(even)
    IN  IF Len(b) > AddressLength THEN Slice(b, Len(b) - AddressLength, Len(b))
        ELSE [i \in 1..(AddressLength - Len(b)) |-> 0] \o b

\* EncodeAddress encodes an ethereum address without the 0x prefix.
EncodeAddress(address) == Slice(AddressHex(address), 2, AddressLength + 2)

(***************************************************************************)
(* Index codec over cloudevent.NFTDID fields (index.go).                   *)
(***************************************************************************)
\* A nil *Index
NilIndex == [nil |-> TRUE]
IsNil(index) == DOMAIN index = {"nil"}

\* encodedIndex[start:end], which panics when end is past the end of the string
getNextPart(encodedIndex, start, offset) ==
    [value |-> IF start + offset <= Len(encodedIndex)
               THEN Slice(encodedIndex, start, start + offset) ELSE <<>>,
     nextStart |-> start + offset,
     inRange |-> start + offset <= Len(encodedIndex)]

\* EncodeDataType without its truncation branch: an over-long data version is
\* kept whole.
EncodeDataType_NoTruncate(dataType) ==
    IF Len(dataType) < DataTypeLength
    THEN Repeat(DataTypePadding, DataTypeLength - Len(dataType)) \o dataType
    ELSE dataType

\* EncodeDataType that pads on the right.
EncodeDataType_PadRight(dataType) ==
    IF Len(dataType) > DataTypeLength THEN Slice(dataType, 0, DataTypeLength)
    ELSE IF Len(dataType) < DataTypeLength
         THEN dataType \o Repeat(DataTypePadding, DataTypeLength - Len(dataType))
         ELSE dataType

\* EncodeDataType that keeps the end of an over-long data type.
EncodeDataType_KeepTail(dataType) ==
    IF Len(dataType) > DataTypeLength
    THEN Slice(dataType, Len(dataType) - DataTypeLength, Len(dataType))
    ELSE IF Len(dataType) < DataTypeLength
         THEN Repeat(DataTypePadding, DataTypeLength - Len(dataType)) \o dataType
         ELSE dataType

EncodeDataType(dataType) ==
    IF Len(dataType) > DataTypeLength THEN Slice(dataType, 0, DataTypeLength)
    ELSE IF Len(dataType) < DataTypeLength
         THEN Repeat(DataTypePadding, DataTypeLength - Len(dataType)) \o dataType
         ELSE dataType

\* DecodeDataType that leaves the padding in place.
DecodeDataType_NoTrim(dataType) == dataType

DecodeDataType(dataType) == TrimLeft(dataType, DataTypePadding)

\* EncodeNFTDID that gives the chain id 8 digits and the token id 16.
EncodeNFTDID_WidthsSwapped(did) ==
    IF ~IsHexAddress(AddressHex(did.ContractAddress))
    THEN [ok |-> FALSE, val |-> <<>>]
    ELSE [ok |-> TRUE,
          val |-> FormatHex(did.ChainID, 8) \o EncodeAddress(did.ContractAddress)
                  \o FormatHex(did.TokenID, 16)]

EncodeNFTDID(did) ==
    IF ~IsHexAddress(AddressHex(did.ContractAddress))
    THEN [ok |-> FALSE, val |-> <<>>]
    ELSE [ok |-> TRUE,
          val |-> FormatHex(did.ChainID, 16) \o EncodeAddress(did.ContractAddress)
                  \o FormatHex(did.TokenID, 8)]

DecodeNFTDIDIndex(indexNFTDID) ==
    IF Len(indexNFTDID) # DIDLength THEN [ok |-> FALSE]
    ELSE LET chainIDPart == getNextPart(indexNFTDID, 0, 16)
             chainID == ParseUintHex(chainIDPart.value)
             contractPart == getNextPart(indexNFTDID, chainIDPart.nextStart, AddressLength)
             tokenIDPart == getNextPart(indexNFTDID, contractPart.nextStart, 8)
             tokenID == ParseUintHex(tokenIDPart.value)
         IN  IF ~chainID.ok THEN [ok |-> FALSE]
             ELSE IF ~IsHexAddress(contractPart.value) THEN [ok |-> FALSE]
             ELSE IF ~tokenID.ok THEN [ok |-> FALSE]
             ELSE [ok |-> TRUE,
                   did |-> [ChainID |-> chainID.val,
                            ContractAddress |-> HexToAddress(contractPart.value),
                            TokenID |-> tokenID.val]]

WithDefaults(index) ==
    IF IsNil(index) THEN index
    ELSE [index EXCEPT
            !.PrimaryFiller = IF @ = <<>> THEN DefaultPrimaryFiller ELSE @,
            !.SecondaryFiller = IF @ = <<>> THEN DefaultSecondaryFiller ELSE @]

\* ValidateIndex without the check of the secondary filler.
ValidateIndex_NoSecondary(index) ==
    /\ ~IsNil(index)
    /\ Len(index.PrimaryFiller) = FillerLength
    /\ ~(IsZero(index.Timestamp) \/ index.Timestamp.year < 2000 \/ index.Timestamp.year > 2099)

\* TRUE when ValidateIndex returns nil
ValidateIndex(index) ==
    /\ ~IsNil(index)
    /\ Len(index.PrimaryFiller) = FillerLength
    /\ Len(index.SecondaryFiller) = FillerLength
    /\ ~(IsZero(index.Timestamp) \/ index.Timestamp.year < 2000 \/ index.Timestamp.year > 2099)

\* The date segment without the inversion: yymmdd as %06d.
EncodeDatePart_Plain(ts) ==
    FormatPadded((ts.year % 100) * 10000 + ts.month * 100 + ts.day, DateLength)

\* The date segment: 999999 - yymmdd as %06d
EncodeDatePart(ts) ==
    FormatPadded(DateMax - ((ts.year % 100) * 10000 + ts.month * 100 + ts.day), DateLength)

\* EncodeIndex that validates the record as given, before the defaults.
EncodeIndex_ValidateFirst(origIndex) ==
    LET index == WithDefaults(origIndex)
    IN  IF ~ValidateIndex(origIndex) THEN [ok |-> FALSE, key |-> <<>>]
        ELSE LET subject == EncodeNFTDID(index.Subject)
                 producer == EncodeNFTDID(index.Producer)
             IN  IF ~subject.ok \/ ~producer.ok THEN [ok |-> FALSE, key |-> <<>>]
                 ELSE [ok |-> TRUE,
                       key |-> subject.val
                               \o EncodeDatePart(index.Timestamp)
                               \o EncodeTime(index.Timestamp)
                               \o index.PrimaryFiller
                               \o EncodeAddress(index.Source)
                               \o EncodeDataType(index.DataType)
                               \o index.SecondaryFiller
                               \o producer.val
                               \o index.Optional]

EncodeIndex(origIndex) ==
    LET index == WithDefaults(origIndex)
    IN  IF ~ValidateIndex(index) THEN [ok |-> FALSE, key |-> <<>>]
        ELSE LET subject == EncodeNFTDID(index.Subject)
                 producer == EncodeNFTDID(index.Producer)
             IN  IF ~subject.ok \/ ~producer.ok THEN [ok |-> FALSE, key |-> <<>>]
                 ELSE [ok |-> TRUE,
                       key |-> subject.val
                               \o EncodeDatePart(index.Timestamp)
                               \o EncodeTime(index.Timestamp)
                               \o index.PrimaryFiller
                               \o EncodeAddress(index.Source)
                               \o EncodeDataType(index.DataType)
                               \o index.SecondaryFiller
                               \o producer.val
                               \o index.Optional]

\* DecodeIndex that slices without looking at the length first.
DecodeIndex_NoLengthCheck(index) ==
    IF FALSE THEN [ok |-> FALSE]
    ELSE LET subjectPart == getNextPart(index, 0, DIDLength)
             datePart == getNextPart(index, subjectPart.nextStart, DateLength)
             timePart == getNextPart(index, datePart.nextStart, TimeLength)
             primaryFillerPart == getNextPart(index, timePart.nextStart, FillerLength)
             sourcePart == getNextPart(index, primaryFillerPart.nextStart, AddressLength)
             dataTypePart == getNextPart(index, sourcePart.nextStart, DataTypeLength)
             secondaryFillerPart == getNextPart(index, dataTypePart.nextStart, FillerLength)
             producerPart == getNextPart(index, secondaryFillerPart.nextStart, DIDLength)
             optional == Slice(index, producerPart.nextStart, Len(index))
             dateInt == Atoi(datePart.value)
             yymmddInt == DateMax - dateInt.val
             year == (yymmddInt \div 10000) + 2000
             month == (yymmddInt % 10000) \div 100
             day == yymmddInt % 100
             subject == DecodeNFTDIDIndex(subjectPart.value)
             ts == ParseHhmmss(timePart.value)
             producer == DecodeNFTDIDIndex(producerPart.value)
         IN  IF \E part \in {subjectPart, datePart, timePart, primaryFillerPart, sourcePart,
                              dataTypePart, secondaryFillerPart, producerPart} : ~part.inRange
             THEN [ok |-> FALSE, panic |-> TRUE]
             ELSE IF ~dateInt.ok THEN [ok |-> FALSE]
             ELSE IF month < 1 \/ month > 12 THEN [ok |-> FALSE]
             ELSE IF day < 1 \/ day > 31 THEN [ok |-> FALSE]
             ELSE IF ~subject.ok THEN [ok |-> FALSE]
             ELSE IF ~ts.ok THEN [ok |-> FALSE]
             ELSE IF ~IsHexAddress(sourcePart.value) THEN [ok |-> FALSE]
             ELSE IF ~producer.ok THEN [ok |-> FALSE]
             ELSE [ok |-> TRUE,
                   index |-> [Subject |-> subject.did,
                              Timestamp |-> TimeDate(year, month, day, ts.hour, ts.minute, ts.second),
                              PrimaryFiller |-> primaryFillerPart.value,
                              Source |-> HexToAddress(sourcePart.value),
                              DataType |-> DecodeDataType(dataTypePart.value),
                              Producer |-> producer.did,
                              SecondaryFiller |-> secondaryFillerPart.value,
                              Optional |-> optional]]

DecodeIndex(index) ==
    IF Len(index) < TotalLength THEN [ok |-> FALSE]
    ELSE LET subjectPart == getNextPart(index, 0, DIDLength)
             datePart == getNextPart(index, subjectPart.nextStart, DateLength)
             timePart == getNextPart(index, datePart.nextStart, TimeLength)
             primaryFillerPart == getNextPart(index, timePart.nextStart, FillerLength)
             sourcePart == getNextPart(index, primaryFillerPart.nextStart, AddressLength)
             dataTypePart == getNextPart(index, sourcePart.nextStart, DataTypeLength)
             secondaryFillerPart == getNextPart(index, dataTypePart.nextStart, FillerLength)
             producerPart == getNextPart(index, secondaryFillerPart.nextStart, DIDLength)
             optional == Slice(index, producerPart.nextStart, Len(index))
             dateInt == Atoi(datePart.value)
             yymmddInt == DateMax - dateInt.val
             year == (yymmddInt \div 10000) + 2000
             month == (yymmddInt % 10000) \div 100
             day == yymmddInt % 100
             subject == DecodeNFTDIDIndex(subjectPart.value)
             ts == ParseHhmmss(timePart.value)
             producer == DecodeNFTDIDIndex(producerPart.value)
         IN  IF \E part \in {subjectPart, datePart, timePart, primaryFillerPart, sourcePart,
                              dataTypePart, secondaryFillerPart, producerPart} : ~part.inRange
             THEN [ok |-> FALSE, panic |-> TRUE]
             ELSE IF ~dateInt.ok THEN [ok |-> FALSE]
             ELSE IF month < 1 \/ month > 12 THEN [ok |-> FALSE]
             ELSE IF day < 1 \/ day > 31 THEN [ok |-> FALSE]
             ELSE IF ~subject.ok THEN [ok |-> FALSE]
             ELSE IF ~ts.ok THEN [ok |-> FALSE]
             ELSE IF ~IsHexAddress(sourcePart.value) THEN [ok |-> FALSE]
             ELSE IF ~producer.ok THEN [ok |-> FALSE]
             ELSE [ok |-> TRUE,
                   index |-> [Subject |-> subject.did,
                              Timestamp |-> TimeDate(year, month, day, ts.hour, ts.minute, ts.second),
                              PrimaryFiller |-> primaryFillerPart.value,
                              Source |-> HexToAddress(sourcePart.value),
                              DataType |-> DecodeDataType(dataTypePart.value),
                              Producer |-> producer.did,
                              SecondaryFiller |-> secondaryFillerPart.value,
                              Optional |-> optional]]

(***************************************************************************)
(* Index codec over string fields (the successor of index.go, used by the  *)
(* repository): every part is padded or truncated to its width.            *)
(***************************************************************************)
\* Pad on the left with pad, or truncate, to exactly width bytes.
PadOrTruncate(str, width, pad) ==
    IF Len(str) > width THEN Slice(str, 0, width)
    ELSE IF Len(str) < width THEN Repeat(pad, width - Len(str)) \o str
    ELSE str

EncodePrimaryFiller(primaryFiller) == PadOrTruncate(primaryFiller, FillerLength, "M")
DecodePrimaryFiller(primaryFiller) == TrimLeft(primaryFiller, "M")
\* EncodeSecondaryFiller that keeps the last characters of a long filler.
EncodeSecondaryFiller_KeepTail(secondaryFiller) ==
    IF Len(secondaryFiller) > FillerLength
    THEN Slice(secondaryFiller, Len(secondaryFiller) - FillerLength, Len(secondaryFiller))
    ELSE Repeat("0", FillerLength - Len(secondaryFiller)) \o secondaryFiller
EncodeSecondaryFiller(secondaryFiller) == PadOrTruncate(secondaryFiller, FillerLength, "0")
DecodeSecondaryFiller(secondaryFiller) == TrimLeft(secondaryFiller, "0")
\* EncodeSource renders the address with source.Hex(), 0x prefix included.
EncodeSource(source) == PadOrTruncate(AddressHex(source), AddressLength, DataTypePadding)
DecodeSource(source) == TrimLeft(source, DataTypePadding)
EncodeSubject(subject) == PadOrTruncate(subject, DIDLength, DataTypePadding)
DecodeSubject(subject) == TrimLeft(subject, DataTypePadding)
EncodeProducer(producer) == PadOrTruncate(producer, DIDLength, DataTypePadding)
DecodeProducer(producer) == TrimLeft(producer, DataTypePadding)

\* EncodeDate without the inversion.
EncodeDate_Plain(date) ==
    IF IsZero(date) \/ date.year < 2000 \/ date.year > 2099
    THEN [ok |-> FALSE, val |-> <<>>]
    ELSE [ok |-> TRUE,
          val |-> FormatPadded((date.year % 100) * 10000 + date.month * 100 + date.day,
                               DateLength)]

EncodeDate(date) ==
    IF IsZero(date) \/ date.year < 2000 \/ date.year > 2099
    THEN [ok |-> FALSE, val |-> <<>>]
    ELSE [ok |-> TRUE,
          val |-> FormatPadded(DateMax - ((date.year % 100) * 10000 + date.month * 100 + date.day),
                               DateLength)]

DecodeDateAndTime(datePart, timePart) ==
    LET dateInt == Atoi(datePart)
        yymmddInt == DateMax - dateInt.val
        year == (yymmddInt \div 10000) + 2000
        month == (yymmddInt % 10000) \div 100
        day == yymmddInt % 100
        ts == ParseHhmmss(timePart)
    IN  IF ~dateInt.ok THEN [ok |-> FALSE]
        ELSE IF month < 1 \/ month > 12 THEN [ok |-> FALSE]
        ELSE IF day < 1 \/ day > 31 THEN [ok |-> FALSE]
        ELSE IF ~ts.ok THEN [ok |-> FALSE]
        ELSE [ok |-> TRUE, time |-> TimeDate(year, month, day, ts.hour, ts.minute, ts.second)]

\* Index.WithEncodedParts; Source holds a hex address string.
WithEncodedParts(i) ==
    [Subject |-> EncodeSubject(i.Subject),
     Timestamp |-> i.Timestamp,
     PrimaryFiller |-> EncodePrimaryFiller(i.PrimaryFiller),
     DataType |-> EncodeDataType(i.DataType),
     Source |-> EncodeSource(HexToAddress(i.Source)),
     Producer |-> EncodeProducer(i.Producer),
     SecondaryFiller |-> EncodeSecondaryFiller(i.SecondaryFiller),
     Optional |-> i.Optional]

StrEncodeIndex(origIndex) ==
    IF IsNil(origIndex) THEN [ok |-> FALSE, key |-> <<>>]
    ELSE LET index == WithEncodedParts(origIndex)
             datePart == EncodeDate(index.Timestamp)
         IN  IF ~datePart.ok THEN [ok |-> FALSE, key |-> <<>>]
             ELSE [ok |-> TRUE,
                   key |-> index.Subject
                           \o datePart.val
                           \o EncodeTime(index.Timestamp)
                           \o index.PrimaryFiller
                           \o index.Source
                           \o index.DataType
                           \o index.SecondaryFiller
                           \o index.Producer
                           \o index.Optional]

StrDecodeIndex(index) ==
    IF Len(index) < TotalLength THEN [ok |-> FALSE]
    ELSE LET subjectPart == getNextPart(index, 0, DIDLength)
             datePart == getNextPart(index, subjectPart.nextStart, DateLength)
             timePart == getNextPart(index, datePart.nextStart, TimeLength)
             primaryFillerPart == getNextPart(index, timePart.nextStart, FillerLength)
             sourcePart == getNextPart(index, primaryFillerPart.nextStart, AddressLength)
             dataTypePart == getNextPart(index, sourcePart.nextStart, DataTypeLength)
             secondaryFillerPart == getNextPart(index, dataTypePart.nextStart, FillerLength)
             producerPart == getNextPart(index, secondaryFillerPart.nextStart, DIDLength)
             optional == Slice(index, producerPart.nextStart, Len(index))
             fullTime == DecodeDateAndTime(datePart.value, timePart.value)
         IN  IF \E part \in {subjectPart, datePart, timePart, primaryFillerPart, sourcePart,
                              dataTypePart, secondaryFillerPart, producerPart} : ~part.inRange
             THEN [ok |-> FALSE, panic |-> TRUE]
             ELSE IF ~fullTime.ok THEN [ok |-> FALSE]
             ELSE [ok |-> TRUE,
                   index |-> [Subject |-> DecodeSubject(subjectPart.value),
                              Timestamp |-> fullTime.time,
                              PrimaryFiller |-> DecodePrimaryFiller(primaryFillerPart.value),
                              Source |-> DecodeSource(sourcePart.value),
                              DataType |-> DecodeDataType(dataTypePart.value),
                              Producer |-> DecodeProducer(producerPart.value),
                              SecondaryFiller |-> DecodeSecondaryFiller(secondaryFillerPart.value),
                              Optional |-> optional]]

(***************************************************************************)
(* Event type fillers (cloud_event_index.go).                              *)
(***************************************************************************)
FillerStatus == <<"A">>
FillerFingerprint == <<"E">>
FillerVerifiableCredential == <<"V">>
FillerUnknown == <<"U">>

\* Event types are compared for equality only and are kept as atoms.
CloudTypeToFiller(status) ==
    CASE status = "dimo.status" -> FillerStatus
      [] status = "dimo.fingerprint" -> FillerFingerprint
      [] status = "dimo.verifiablecredential" -> FillerVerifiableCredential
      [] OTHER -> FillerUnknown

FillerToCloudType(filler) ==
    CASE filler = FillerStatus -> "dimo.status"
      [] filler = FillerFingerprint -> "dimo.fingerprint"
      [] filler = FillerVerifiableCredential -> "dimo.verifiablecredential"
      [] OTHER -> "dimo.unknown"

(***************************************************************************)
(* Event header to Index (cloud_event_index.go).  A header is a record of  *)
(* ID, Source, Producer, Subject (strings), Time, Type (an atom) and       *)
(* DataVersion.                                                            *)
(***************************************************************************)
\* strings.Split(s, sep) for a one-byte separator
RECURSIVE SplitOn(_, _)
SplitOn(s, sep) ==
    IF \A i \in 1..Len(s) : s[i] # sep THEN <<s>>
    ELSE LET at == CHOOSE i \in 1..Len(s) : s[i] = sep /\ \A j \in 1..(i - 1) : s[j] # sep
         IN  <<Slice(s, 0, at - 1)>> \o SplitOn(Slice(s, at, Len(s)), sep)

\* strconv.ParseUint(s, 10, ..): one or more decimal digits, no sign
ParseUintDec(s) ==
    IF s # <<>> /\ \A i \in 1..Len(s) : IsDecDigit(s[i])
    THEN [ok |-> TRUE, val |-> DecFold(s, 0)]
    ELSE [ok |-> FALSE, val |-> 0]

\* cloudevent.NFTDID.String(): did:nft:<chain id>:<0x address>_<token id>
NFTDIDString(did) ==
    <<"d", "i", "d", ":", "n", "f", "t", ":">> \o FormatInt(did.ChainID) \o <<":">>
        \o AddressHex(did.ContractAddress) \o <<"_">> \o FormatInt(did.TokenID)

\* cloudevent.DecodeNFTDID: did:nft:<chain id>:<address>_<token id>
DecodeNFTDID(did) ==
    LET parts == SplitOn(did, ":")
        nftParts == SplitOn(parts[4], "_")
        tokenID == ParseUintDec(nftParts[2])
        chainID == ParseUintDec(parts[3])
    IN  IF Len(parts) # 4 THEN [ok |-> FALSE]
        ELSE IF parts[1] # <<"d", "i", "d">> \/ parts[2] # <<"n", "f", "t">> THEN [ok |-> FALSE]
        ELSE IF Len(nftParts) # 2 THEN [ok |-> FALSE]
        ELSE IF ~tokenID.ok THEN [ok |-> FALSE]
        ELSE IF ~IsHexAddress(nftParts[1]) THEN [ok |-> FALSE]
        ELSE IF ~chainID.ok THEN [ok |-> FALSE]
        ELSE [ok |-> TRUE,
              did |-> [ChainID |-> chainID.val,
                       ContractAddress |-> HexToAddress(nftParts[1]),
                       TokenID |-> tokenID.val]]

DecodeAddress(encodedAddress) ==
    IF ~IsHexAddress(encodedAddress) THEN [ok |-> FALSE]
    ELSE [ok |-> TRUE, addr |-> HexToAddress(encodedAddress)]

\* TRUE when ValidateDate returns nil: the timestamp is set and its year is in
\* the range the date part can carry.
ValidateDate(t) == ~(IsZero(t) \/ t.year < 2000 \/ t.year > 2099)

\* CloudEventIndex.ToIndex
ToIndex(c) ==
    [Subject |-> EncodeNFTDID(c.Subject).val,
     Timestamp |-> c.Timestamp,
     PrimaryFiller |-> c.PrimaryFiller,
     Source |-> EncodeAddress(c.Source),
     DataType |-> c.DataType,
     Producer |-> EncodeNFTDID(c.Producer).val,
     SecondaryFiller |-> c.SecondaryFiller,
     Optional |-> c.Optional]

\* CloudEventToCloudIndex that takes whatever address the source string gives.
CloudEventToCloudIndex_RawSource(cloudEvent, secondaryFiller) ==
    LET subjectDID == DecodeNFTDID(cloudEvent.Subject)
        producerDID == DecodeNFTDID(cloudEvent.Producer)
        sourceAddr == [ok |-> TRUE, addr |-> HexToAddress(cloudEvent.Source)]
    IN  IF ~subjectDID.ok THEN [ok |-> FALSE, err |-> "subject"]
        ELSE IF ~producerDID.ok THEN [ok |-> FALSE, err |-> "producer"]
        ELSE IF ~sourceAddr.ok THEN [ok |-> FALSE, err |-> "source"]
        ELSE IF ~ValidateDate(cloudEvent.Time) THEN [ok |-> FALSE, err |-> "timestamp"]
        ELSE [ok |-> TRUE, err |-> "none",
              index |-> [Subject |-> subjectDID.did,
                         Timestamp |-> cloudEvent.Time,
                         PrimaryFiller |-> CloudTypeToFiller(cloudEvent.Type),
                         Source |-> sourceAddr.addr,
                         DataType |-> cloudEvent.DataVersion,
                         Producer |-> producerDID.did,
                         SecondaryFiller |-> secondaryFiller,
                         Optional |-> <<>>]]

\* The strict conversion: the first malformed field is the error.
CloudEventToCloudIndex(cloudEvent, secondaryFiller) ==
    LET subjectDID == DecodeNFTDID(cloudEvent.Subject)
        producerDID == DecodeNFTDID(cloudEvent.Producer)
        sourceAddr == DecodeAddress(cloudEvent.Source)
    IN  IF ~subjectDID.ok THEN [ok |-> FALSE, err |-> "subject"]
        ELSE IF ~producerDID.ok THEN [ok |-> FALSE, err |-> "producer"]
        ELSE IF ~sourceAddr.ok THEN [ok |-> FALSE, err |-> "source"]
        ELSE IF ~ValidateDate(cloudEvent.Time) THEN [ok |-> FALSE, err |-> "timestamp"]
        ELSE [ok |-> TRUE, err |-> "none",
              index |-> [Subject |-> subjectDID.did,
                         Timestamp |-> cloudEvent.Time,
                         PrimaryFiller |-> CloudTypeToFiller(cloudEvent.Type),
                         Source |-> sourceAddr.addr,
                         DataType |-> cloudEvent.DataVersion,
                         Producer |-> producerDID.did,
                         SecondaryFiller |-> secondaryFiller,
                         Optional |-> <<>>]]

\* CloudEventToPartialIndex that stamps every record with the clock reading.
CloudEventToPartialIndex_AlwaysNow(cloudHdr, secondaryFiller, now) ==
    IF IsNil(cloudHdr)
    THEN [Subject |-> <<>>, Timestamp |-> now, PrimaryFiller |-> <<>>, Source |-> <<>>,
          DataType |-> <<>>, Producer |-> <<>>, SecondaryFiller |-> <<>>, Optional |-> <<>>]
    ELSE LET timestamp == now
             subjectDID == DecodeNFTDID(cloudHdr.Subject)
             producerDID == DecodeNFTDID(cloudHdr.Producer)
             sourceAddr == DecodeAddress(cloudHdr.Source)
         IN  [Subject |-> IF subjectDID.ok THEN EncodeNFTDID(subjectDID.did).val
                          ELSE cloudHdr.Subject,
              Timestamp |-> timestamp,
              PrimaryFiller |-> CloudTypeToFiller(cloudHdr.Type),
              Source |-> IF sourceAddr.ok THEN EncodeAddress(sourceAddr.addr)
                         ELSE cloudHdr.Source,
              DataType |-> cloudHdr.DataVersion,
              Producer |-> IF producerDID.ok THEN EncodeNFTDID(producerDID.did).val
                           ELSE cloudHdr.Producer,
              SecondaryFiller |-> secondaryFiller,
              Optional |-> <<>>]

\* The best-effort conversion; now is what time.Now() returns when it is read.
\* CloudEventToPartialIndex that keeps the subject as the header has it.
CloudEventToPartialIndex_RawSubject(cloudHdr, secondaryFiller, now) ==
    IF IsNil(cloudHdr)
    THEN [Subject |-> <<>>, Timestamp |-> now, PrimaryFiller |-> <<>>, Source |-> <<>>,
          DataType |-> <<>>, Producer |-> <<>>, SecondaryFiller |-> <<>>, Optional |-> <<>>]
    ELSE LET timestamp == IF ValidateDate(cloudHdr.Time) THEN cloudHdr.Time ELSE now
             producerDID == DecodeNFTDID(cloudHdr.Producer)
             sourceAddr == DecodeAddress(cloudHdr.Source)
         IN  [Subject |-> cloudHdr.Subject,
              Timestamp |-> timestamp,
              PrimaryFiller |-> CloudTypeToFiller(cloudHdr.Type),
              Source |-> IF sourceAddr.ok THEN EncodeAddress(sourceAddr.addr)
                         ELSE cloudHdr.Source,
              DataType |-> cloudHdr.DataVersion,
              Producer |-> IF producerDID.ok THEN EncodeNFTDID(producerDID.did).val
                           ELSE cloudHdr.Producer,
              SecondaryFiller |-> secondaryFiller,
              Optional |-> <<>>]

CloudEventToPartialIndex(cloudHdr, secondaryFiller, now) ==
    IF IsNil(cloudHdr)
    THEN [Subject |-> <<>>, Timestamp |-> now, PrimaryFiller |-> <<>>, Source |-> <<>>,
          DataType |-> <<>>, Producer |-> <<>>, SecondaryFiller |-> <<>>, Optional |-> <<>>]
    ELSE LET timestamp == IF ValidateDate(cloudHdr.Time) THEN cloudHdr.Time ELSE now
             subjectDID == DecodeNFTDID(cloudHdr.Subject)
             producerDID == DecodeNFTDID(cloudHdr.Producer)
             sourceAddr == DecodeAddress(cloudHdr.Source)
         IN  [Subject |-> IF subjectDID.ok THEN EncodeNFTDID(subjectDID.did).val
                          ELSE cloudHdr.Subject,
              Timestamp |-> timestamp,
              PrimaryFiller |-> CloudTypeToFiller(cloudHdr.Type),
              Source |-> IF sourceAddr.ok THEN EncodeAddress(sourceAddr.addr)
                         ELSE cloudHdr.Source,
              DataType |-> cloudHdr.DataVersion,
              Producer |-> IF producerDID.ok THEN EncodeNFTDID(producerDID.did).val
                           ELSE cloudHdr.Producer,
              SecondaryFiller |-> secondaryFiller,
              Optional |-> <<>>]

EncodeCloudEventIndex(cloudIndex) ==
    IF IsNil(cloudIndex) THEN [ok |-> FALSE, key |-> <<>>]
    ELSE StrEncodeIndex(ToIndex(cloudIndex))

EncodeCloudEvent(cloudEvent, secondaryFiller) ==
    LET index == CloudEventToCloudIndex(cloudEvent, secondaryFiller)
    IN  IF ~index.ok THEN [ok |-> FALSE, key |-> <<>>]
        ELSE EncodeCloudEventIndex(index.index)

\* DecodeCloudEventIndex decodes an index string into a CloudEventIndex.
DecodeCloudEventIndex(encodedIndex) ==
    LET index == StrDecodeIndex(encodedIndex)
    IN  IF ~index.ok THEN [ok |-> FALSE, err |-> "index"]
        ELSE IF ~IsHexAddress(index.index.Source) THEN [ok |-> FALSE, err |-> "source"]
        ELSE LET subject == DecodeNFTDIDIndex(index.index.Subject)
                 producer == DecodeNFTDIDIndex(index.index.Producer)
             IN  IF ~subject.ok THEN [ok |-> FALSE, err |-> "subject"]
                 ELSE IF ~producer.ok THEN [ok |-> FALSE, err |-> "producer"]
                 ELSE [ok |-> TRUE, err |-> "none",
                       index |-> [Subject |-> subject.did,
                                  Timestamp |-> index.index.Timestamp,
                                  PrimaryFiller |-> index.index.PrimaryFiller,
                                  Source |-> HexToAddress(index.index.Source),
                                  DataType |-> index.index.DataType,
                                  Producer |-> producer.did,
                                  SecondaryFiller |-> index.index.SecondaryFiller,
                                  Optional |-> index.index.Optional]]

\* DecodeCloudEvent decodes an encoded index string into a CloudEventHeader
\* and the secondary filler.
DecodeCloudEvent(index) ==
    LET decodedIndex == DecodeCloudEventIndex(index)
    IN  IF ~decodedIndex.ok THEN [ok |-> FALSE, err |-> decodedIndex.err]
        ELSE [ok |-> TRUE, err |-> "none",
              cloudEvent |-> [Subject |-> NFTDIDString(decodedIndex.index.Subject),
                              Time |-> decodedIndex.index.Timestamp,
                              Type |-> FillerToCloudType(decodedIndex.index.PrimaryFiller),
                              DataVersion |-> decodedIndex.index.DataType,
                              Producer |-> NFTDIDString(decodedIndex.index.Producer),
                              Source |-> AddressHex(decodedIndex.index.Source)],
              secondaryFiller |-> decodedIndex.index.SecondaryFiller]

\* t.Format(time.RFC3339) of a UTC time
FormatRFC3339(t) ==
    FormatPadded(t.year, 4) \o <<"-">> \o FormatPadded(t.month, 2) \o <<"-">>
        \o FormatPadded(t.day, 2) \o <<"T">> \o FormatPadded(t.hour, 2) \o <<":">>
        \o FormatPadded(t.minute, 2) \o <<":">> \o FormatPadded(t.second, 2) \o <<"Z">>

\* CloudEventToSlice that keeps the empty key of a failed encoding.
CloudEventToSlice_NoFallback(event, now) ==
    LET idx == CloudEventToPartialIndex(event, <<>>, now)
        key == StrEncodeIndex(idx)
    IN  [index |-> idx, encoded |-> key.ok, key |-> key.key]

\* The index key that CloudEventToSlice puts in the row: the encoded
\* best-effort Index, or id_source_time_subject when that does not encode.
CloudEventToSlice(event, now) ==
    LET idx == CloudEventToPartialIndex(event, <<>>, now)
        key == StrEncodeIndex(idx)
    IN  IF ~key.ok
        THEN [index |-> idx, encoded |-> FALSE,
              key |-> event.ID \o <<"_">> \o event.Source \o <<"_">>
                      \o FormatRFC3339(event.Time) \o <<"_">> \o event.Subject]
        ELSE [index |-> idx, encoded |-> TRUE, key |-> key.key]

(***************************************************************************)
(* ClickHouse row and query predicates (pkg/clickhouse, indexrepo).        *)
(***************************************************************************)
\* IndexToSlice: the values of one name_index row, index_key last.
\* IndexToSlice that encodes the key from the already encoded parts.
IndexToSlice_KeyOfEncodedParts(origIndex) ==
    LET index == WithEncodedParts(origIndex)
        indexKey == StrEncodeIndex(index)
    IN  IF ~indexKey.ok THEN [ok |-> FALSE]
        ELSE [ok |-> TRUE,
              row |-> [subject |-> index.Subject,
                       timestamp |-> index.Timestamp,
                       primary_filler |-> index.PrimaryFiller,
                       source |-> index.Source,
                       data_type |-> index.DataType,
                       secondary_filler |-> index.SecondaryFiller,
                       producer |-> index.Producer,
                       optional |-> index.Optional,
                       index_key |-> indexKey.key]]

IndexToSlice(origIndex) ==
    LET index == WithEncodedParts(origIndex)
        indexKey == StrEncodeIndex(origIndex)
    IN  IF ~indexKey.ok THEN [ok |-> FALSE]
        ELSE [ok |-> TRUE,
              row |-> [subject |-> index.Subject,
                       timestamp |-> index.Timestamp,
                       primary_filler |-> index.PrimaryFiller,
                       source |-> index.Source,
                       data_type |-> index.DataType,
                       secondary_filler |-> index.SecondaryFiller,
                       producer |-> index.Producer,
                       optional |-> index.Optional,
                       index_key |-> indexKey.key]]

\* A *string field of the search options: nil or a value.
None == [set |-> FALSE, val |-> <<>>]
Some(v) == [set |-> TRUE, val |-> v]

\* QueryMods whose After clause is timestamp >= ?.
QueryMods_AfterInclusive(o, row) ==
    /\ ~IsZero(o.After) => ~TimeBefore(row.timestamp, o.After)
    /\ ~IsZero(o.Before) => TimeBefore(row.timestamp, o.Before)
    /\ o.Type.set => row.primary_filler = EncodePrimaryFiller(CloudTypeToFiller(o.Type.val))
    /\ o.DataVersion.set => row.data_type = EncodeDataType(o.DataVersion.val)
    /\ o.Subject.set => row.subject = EncodeSubject(o.Subject.val)
    /\ o.Source.set => row.source = EncodeSource(HexToAddress(o.Source.val))
    /\ o.Producer.set => row.producer = EncodeProducer(o.Producer.val)
    /\ o.Optional.set => row.optional = o.Optional.val

\* RawSearchOptions.QueryMods: the conjunction of the WHERE clauses it appends.
QueryMods(o, row) ==
    /\ ~IsZero(o.After) => TimeAfter(row.timestamp, o.After)
    /\ ~IsZero(o.Before) => TimeBefore(row.timestamp, o.Before)
    /\ o.Type.set => row.primary_filler = EncodePrimaryFiller(CloudTypeToFiller(o.Type.val))
    /\ o.DataVersion.set => row.data_type = EncodeDataType(o.DataVersion.val)
    /\ o.Subject.set => row.subject = EncodeSubject(o.Subject.val)
    /\ o.Source.set => row.source = EncodeSource(HexToAddress(o.Source.val))
    /\ o.Producer.set => row.producer = EncodeProducer(o.Producer.val)
    /\ o.Optional.set => row.optional = o.Optional.val

\* The rows of table that the WHERE clauses of o keep.
Matching(table, o) == {r \in BagToSet(table) : QueryMods(o, r)}

\* How many stored rows (with multiplicity) the WHERE clauses of o keep.
RECURSIVE SumCopies(_, _)
SumCopies(table, rs) ==
    IF rs = {} THEN 0
    ELSE LET r == CHOOSE x \in rs : TRUE
         IN  CopiesIn(r, table) + SumCopies(table, rs \ {r})

MatchingCount(table, o) == SumCopies(table, Matching(table, o))

\* A latest lookup that honours TimestampAsc: argMin when the flag is set.
ArgMaxIndexKey_Ordered(table, o) ==
    LET m == Matching(table, o)
    IN  IF m = {} THEN {<<>>}
        ELSE IF o.TimestampAsc
        THEN {r.index_key : r \in {x \in m : \A y \in m : ~TimeBefore(y.timestamp, x.timestamp)}}
        ELSE {r.index_key : r \in {x \in m : \A y \in m : ~TimeAfter(y.timestamp, x.timestamp)}}

\* argMax(index_key, timestamp) over the matching rows: the keys ClickHouse may
\* return.  Over no rows the aggregate yields the empty string.
ArgMaxIndexKey(table, o) ==
    LET m == Matching(table, o)
    IN  IF m = {} THEN {<<>>}
        ELSE {r.index_key : r \in {x \in m : \A y \in m : ~TimeAfter(y.timestamp, x.timestamp)}}

\* ORDER BY timestamp ASC whatever the flag says.
InOrder_AscOnly(asc, a, b) == ~TimeAfter(a.timestamp, b.timestamp)

\* ORDER BY timestamp ASC|DESC on two rows: TRUE when a may precede b.
InOrder(asc, a, b) ==
    IF asc THEN ~TimeAfter(a.timestamp, b.timestamp)
    ELSE ~TimeBefore(a.timestamp, b.timestamp)

RECURSIVE Occurrences(_, _)
Occurrences(seq, x) ==
    IF seq = <<>> THEN 0
    ELSE (IF Head(seq) = x THEN 1 ELSE 0) + Occurrences(Tail(seq), x)

\* SELECT ... WHERE ... ORDER BY timestamp <order> LIMIT limit: the row
\* sequences ClickHouse may return (ties are in any order).
OrderedLimited(table, o, limit) ==
    LET m == Matching(table, o)
        n == Min(limit, MatchingCount(table, o))
    IN  {sel \in [1..n -> m] :
            /\ \A r \in m : Occurrences(sel, r) <= CopiesIn(r, table)
            /\ \A i \in 1..n : \A j \in 1..n : i < j => InOrder(o.TimestampAsc, sel[i], sel[j])
            /\ \A r \in m : Occurrences(sel, r) < CopiesIn(r, table)
                    => \A i \in 1..n : InOrder(o.TimestampAsc, sel[i], r)}

\* s3 PutObject: the bucket after a successful put
PutObject(bucket, key, data) ==
    [k \in (DOMAIN bucket) \cup {key} |-> IF k = key THEN data ELSE bucket[k]]

(***************************************************************************)
(* Bounds and input sets.                                                  *)
(***************************************************************************)
\* Most rows the table holds.
MaxRows == 2
\* Largest LIMIT of a list call.
MaxLimit == 2
\* Most keys in one GetObjectsFromIndexKeys call.
MaxKeys == 2

\* Concurrent callers of Store.
Procs == {"p1", "p2"}

AddrA == [i \in 1..AddressLength |-> (7 * i + 3) % 16]
AddrB == [i \in 1..AddressLength |-> (5 * i + 11) % 16]

Did1 == [ChainID |-> 137, ContractAddress |-> AddrA, TokenID |-> 1]
Did2 == [ChainID |-> 153, ContractAddress |-> AddrB, TokenID |-> 4660]

T1 == Time(2024, 6, 11, 10, 0, 0)
T2 == Time(2024, 6, 11, 11, 0, 0)
TOld == Time(1900, 1, 1, 0, 0, 0)

\* The Index that the event mapping builds for a subject and a time.
RepoIndex(did, ts) ==
    [Subject |-> EncodeNFTDID(did).val,
     Timestamp |-> ts,
     PrimaryFiller |-> FillerStatus,
     DataType |-> <<"v", "1">>,
     Source |-> EncodeAddress(AddrB),
     Producer |-> EncodeNFTDID(Did1).val,
     SecondaryFiller |-> <<"0", "0">>,
     Optional |-> <<>>]

\* Subjects and producers: DIDs, a string that is no DID, and a DID whose
\* contract address is not one.
BadDID == <<"a", "b", "c">>
BadAddressDID == <<"d", "i", "d", ":", "n", "f", "t", ":", "1", ":", "x", "x", "_", "1">>
BadSource == <<"x", "x">>

\* The header of an event of data version v1.
RepoHeader(subject, source, producer, ts, type) ==
    [ID |-> <<"1">>, Subject |-> subject, Source |-> source, Producer |-> producer,
     Time |-> ts, Type |-> type, DataVersion |-> <<"v", "1">>]

GoodHeader(ts, type) ==
    RepoHeader(NFTDIDString(Did1), AddressHex(AddrB), NFTDIDString(Did1), ts, type)

\* Payloads (event bodies), kept as atoms.
Payloads == {"d1", "d2"}

\* Events handed to StoreCloudEvent and StorePartialCloudEvent: two times of one
\* subject (the first with either body), a second event of the later time
\* that differs in type only, one whose subject, source and producer do not
\* parse, and one whose year cannot be encoded.
RepoEvents ==
    {[hdr |-> GoodHeader(T1, "dimo.status"), data |-> d] : d \in Payloads}
    \cup {[hdr |-> GoodHeader(T2, "dimo.status"), data |-> "d1"],
          [hdr |-> GoodHeader(T2, "dimo.fingerprint"), data |-> "d1"],
          [hdr |-> RepoHeader(BadDID, BadSource, BadDID, T2, "dimo.status"),
           data |-> "notjson"],
          [hdr |-> GoodHeader(TOld, "dimo.status"), data |-> "d1"]}

\* Clock readings during StorePartialCloudEvent.
RepoNows == {T2, Time(2100, 1, 1, 0, 0, 0)}

\* The two conversions of the events, tabulated.
StrictIndexOf == [e \in RepoEvents |-> CloudEventToCloudIndex(e.hdr, <<>>)]
PartialIndexOf ==
    [e \in RepoEvents |-> [now \in RepoNows |-> CloudEventToPartialIndex(e.hdr, <<>>, now)]]

\* Indexes that reach storeObject.
RepoIndexes == {PartialIndexOf[e][now] : e \in RepoEvents, now \in RepoNows}

\* Indexes handed to concurrent Store calls.
StoreIndexes == {RepoIndex(Did1, T1), RepoIndex(Did2, T2), RepoIndex(Did1, TOld)}

RepoKeys == {StrEncodeIndex(i).key : i \in {x \in RepoIndexes : StrEncodeIndex(x).ok}}

\* A nil pointer field of SearchOptions.
Nil == [set |-> FALSE]

\* ToRawSearchOptions that passes the subject as the DID string.
ToRawSearchOptions_DIDString(c) ==
    [After |-> c.After,
     Before |-> c.Before,
     TimestampAsc |-> c.TimestampAsc,
     Type |-> c.Type,
     DataVersion |-> c.DataVersion,
     Optional |-> c.Optional,
     Subject |-> IF c.Subject.set THEN Some(NFTDIDString(c.Subject.val)) ELSE None,
     Source |-> IF c.Source.set THEN Some(EncodeAddress(c.Source.val)) ELSE None,
     Producer |-> IF c.Producer.set THEN Some(EncodeNFTDID(c.Producer.val).val) ELSE None]

\* SearchOptions.ToRawSearchOptions: subject, source and producer encoded.
ToRawSearchOptions(c) ==
    [After |-> c.After,
     Before |-> c.Before,
     TimestampAsc |-> c.TimestampAsc,
     Type |-> c.Type,
     DataVersion |-> c.DataVersion,
     Optional |-> c.Optional,
     Subject |-> IF c.Subject.set THEN Some(EncodeNFTDID(c.Subject.val).val) ELSE None,
     Source |-> IF c.Source.set THEN Some(EncodeAddress(c.Source.val)) ELSE None,
     Producer |-> IF c.Producer.set THEN Some(EncodeNFTDID(c.Producer.val).val) ELSE None]

\* Criteria with nothing set.
NoCriteria ==
    [After |-> ZeroTime, Before |-> ZeroTime, TimestampAsc |-> FALSE, Type |-> Nil,
     DataVersion |-> None, Subject |-> Nil, Source |-> Nil, Producer |-> Nil,
     Optional |-> None]

\* Criteria of the searches: every combination of a time range, an order, a
\* data version and a subject, and one criterion each of the other fields.
SearchCriteria ==
    [After : {ZeroTime, T1},
     Before : {ZeroTime, T2},
     TimestampAsc : BOOLEAN,
     Type : {Nil},
     DataVersion : {None, Some(<<"v", "1">>)},
     Subject : {Nil, Some(Did1), Some(Did2)},
     Source : {Nil},
     Producer : {Nil},
     Optional : {None}]
    \cup {[NoCriteria EXCEPT !.Type = Some("dimo.fingerprint")],
          [NoCriteria EXCEPT !.Source = Some(AddrB)],
          [NoCriteria EXCEPT !.Producer = Some(Did1)],
          [NoCriteria EXCEPT !.Optional = Some(<<"x">>)]}

SearchOptions == {ToRawSearchOptions(c) : c \in SearchCriteria}

KeyLists == UNION {[1..n -> RepoKeys] : n \in 1..MaxKeys}

(***************************************************************************)
(* State.                                                                  *)
(***************************************************************************)
VARIABLES
    blobs,   \* the S3 bucket: index key -> payload
    rows,    \* the name_index table: a bag of rows
    pc,      \* per caller: where its Store call stands
    call,    \* per caller: the locals of its Store call
    resp     \* what the most recent sequential repository call returned

repoVars == <<blobs, rows, pc, call, resp>>

NoCall == [outcome |-> "none"]
NoResp == [op |-> "none"]
EmptyBucket == [k \in {} |-> "d1"]

InitRepo ==
    /\ blobs = EmptyBucket
    /\ rows = EmptyBag
    /\ pc = [p \in Procs |-> "idle"]
    /\ call = [p \in Procs |-> NoCall]
    /\ resp = NoResp

InFlight == Cardinality({p \in Procs : pc[p] \in {"put", "insert"}})

(***************************************************************************)
(* storeObject, one step per external call, for concurrent callers.        *)
(***************************************************************************)
\* Entry: EncodeIndex, returning at once when it fails.
StoreBegin(p, index, data) ==
    /\ pc[p] = "idle"
    /\ BagCardinality(rows) + InFlight < MaxRows
    /\ LET enc == StrEncodeIndex(index)
       IN  IF ~enc.ok
           THEN /\ pc' = [pc EXCEPT ![p] = "done"]
                /\ call' = [call EXCEPT ![p] = [outcome |-> "encode_error", key |-> <<>>]]
           ELSE /\ pc' = [pc EXCEPT ![p] = "put"]
                /\ call' = [call EXCEPT ![p] =
                        [outcome |-> "running", index |-> index, data |-> data, key |-> enc.key]]
    /\ UNCHANGED <<blobs, rows, resp>>

\* PutObject returned nil: the blob is in the bucket, go on to the insert.
PutObjectOk(p) ==
    /\ pc[p] = "put"
    /\ blobs' = PutObject(blobs, call[p].key, call[p].data)
    /\ pc' = [pc EXCEPT ![p] = "insert"]
    /\ UNCHANGED <<rows, call, resp>>

\* storeObject that drops the PutObject error and goes on to the insert.
PutObjectFail_Ignored(p) ==
    /\ pc[p] = "put"
    /\ pc' = [pc EXCEPT ![p] = "insert"]
    /\ UNCHANGED <<blobs, rows, call, resp>>

\* PutObject returned an error: Store returns it.
PutObjectFail(p) ==
    /\ pc[p] = "put"
    /\ pc' = [pc EXCEPT ![p] = "done"]
    /\ call' = [call EXCEPT ![p] = [outcome |-> "put_error", key |-> call[p].key]]
    /\ UNCHANGED <<blobs, rows, resp>>

\* IndexToSlice and a successful Exec of the insert.
InsertOk(p) ==
    /\ pc[p] = "insert"
    /\ LET values == IndexToSlice(call[p].index)
       IN  IF ~values.ok
           THEN /\ call' = [call EXCEPT ![p] = [outcome |-> "slice_error", key |-> call[p].key]]
                /\ rows' = rows
           ELSE /\ call' = [call EXCEPT ![p] = [outcome |-> "ok", key |-> call[p].key]]
                /\ rows' = rows (+) SetToBag({values.row})
    /\ pc' = [pc EXCEPT ![p] = "done"]
    /\ UNCHANGED <<blobs, resp>>

\* storeObject that deletes the blob again when the insert fails.
InsertFail_Rollback(p) ==
    /\ pc[p] = "insert"
    /\ pc' = [pc EXCEPT ![p] = "done"]
    /\ call' = [call EXCEPT ![p] = [outcome |-> "insert_error", key |-> call[p].key]]
    /\ blobs' = [k \in DOMAIN blobs \ {call[p].key} |-> blobs[k]]
    /\ UNCHANGED <<rows, resp>>

\* Exec returned an error: Store returns it and does nothing else.
InsertFail(p) ==
    /\ pc[p] = "insert"
    /\ pc' = [pc EXCEPT ![p] = "done"]
    /\ call' = [call EXCEPT ![p] = [outcome |-> "insert_error", key |-> call[p].key]]
    /\ UNCHANGED <<blobs, rows, resp>>

\* The caller has its result and may call again.
StoreReturn(p) ==
    /\ pc[p] = "done"
    /\ pc' = [pc EXCEPT ![p] = "idle"]
    /\ call' = [call EXCEPT ![p] = NoCall]
    /\ UNCHANGED <<blobs, rows, resp>>

(***************************************************************************)
(* The repository's calls as single steps of one sequential caller.        *)
(***************************************************************************)
\* storeObject from entry to return.
StoreObject(index, data, req) ==
    /\ resp = NoResp
    /\ BagCardinality(rows) < MaxRows
    /\ LET enc == StrEncodeIndex(index)
           values == IndexToSlice(index)
       IN  \/ /\ ~enc.ok
              /\ resp' = [op |-> "store", err |-> "encode_error", key |-> <<>>, req |-> req]
              /\ UNCHANGED <<blobs, rows>>
           \/ /\ enc.ok
              /\ resp' = [op |-> "store", err |-> "put_error", key |-> enc.key, req |-> req]
              /\ UNCHANGED <<blobs, rows>>
           \/ /\ enc.ok
              /\ blobs' = PutObject(blobs, enc.key, data)
              /\ resp' = [op |-> "store", err |-> "insert_error", key |-> enc.key, req |-> req]
              /\ UNCHANGED rows
           \/ /\ enc.ok /\ values.ok
              /\ blobs' = PutObject(blobs, enc.key, data)
              /\ rows' = rows (+) SetToBag({values.row})
              /\ resp' = [op |-> "store", err |-> "none", key |-> enc.key, req |-> req]
    /\ UNCHANGED <<pc, call>>

\* StoreCloudEvent that stores whatever the best-effort conversion gives.
StoreCloudEvent_BestEffort(event) ==
    StoreObject(PartialIndexOf[event][T2], event.data,
                [via |-> "StoreCloudEvent", event |-> event])

\* StoreCloudEvent: the strict conversion, whose error is returned before
\* storeObject is entered.
StoreCloudEvent(event) ==
    LET index == StrictIndexOf[event]
        req == [via |-> "StoreCloudEvent", event |-> event]
    IN  IF ~index.ok
        THEN /\ resp = NoResp
             /\ resp' = [op |-> "store", err |-> "convert_error", key |-> <<>>, req |-> req]
             /\ UNCHANGED <<blobs, rows, pc, call>>
        ELSE StoreObject(ToIndex(index.index), event.data, req)

\* StorePartialCloudEvent: the best-effort conversion, then storeObject.
StorePartialCloudEvent(event, now) ==
    LET index == PartialIndexOf[event][now]
    IN  StoreObject(index, event.data, [via |-> "StorePartialCloudEvent", event |-> event])

\* GetLatestIndexKey: an empty key is reported as sql.ErrNoRows.
GetLatestIndexKey(opts) ==
    /\ resp = NoResp
    /\ \E indexKey \in ArgMaxIndexKey(rows, opts) :
          resp' = IF indexKey = <<>>
                  THEN [op |-> "latest", opts |-> opts, ok |-> FALSE, err |-> "ErrNoRows", key |-> <<>>]
                  ELSE [op |-> "latest", opts |-> opts, ok |-> TRUE, err |-> "none", key |-> indexKey]
    /\ UNCHANGED <<blobs, rows, pc, call>>

\* GetIndexKeys without the len(indexKeys) == 0 check (as GetFileNames of the
\* earlier repository): no rows is an empty list and no error.
GetIndexKeys_EmptyOk(limit, opts) ==
    /\ resp = NoResp
    /\ \E sel \in OrderedLimited(rows, opts, limit) :
          resp' = [op |-> "list", opts |-> opts, limit |-> limit, ok |-> TRUE,
                   err |-> "none", keys |-> [i \in 1..Len(sel) |-> sel[i].index_key],
                   sel |-> sel]
    /\ UNCHANGED <<blobs, rows, pc, call>>

\* GetIndexKeys: the scanned keys, or sql.ErrNoRows when there are none.
GetIndexKeys(limit, opts) ==
    /\ resp = NoResp
    /\ \E sel \in OrderedLimited(rows, opts, limit) :
          LET indexKeys == [i \in 1..Len(sel) |-> sel[i].index_key]
          IN  resp' = IF Len(indexKeys) = 0
                      THEN [op |-> "list", opts |-> opts, limit |-> limit, ok |-> FALSE,
                            err |-> "ErrNoRows", keys |-> <<>>, sel |-> <<>>]
                      ELSE [op |-> "list", opts |-> opts, limit |-> limit, ok |-> TRUE,
                            err |-> "none", keys |-> indexKeys, sel |-> sel]
    /\ UNCHANGED <<blobs, rows, pc, call>>

\* GetObjectFromIndex: one GetObject call for the key, then json.Unmarshal of
\* the body; either can fail.
GetObjectFromIndex(bucket, indexKey) ==
    IF indexKey \notin DOMAIN bucket THEN [ok |-> FALSE, data |-> "none"]
    ELSE IF bucket[indexKey] = "notjson" THEN [ok |-> FALSE, data |-> "none"]
    ELSE [ok |-> TRUE, data |-> bucket[indexKey]]

\* GetObjectsFromIndexKeys that leaves out the keys it cannot fetch.
RECURSIVE FetchLoop_SkipFailed(_, _, _, _)
FetchLoop_SkipFailed(bucket, indexKeys, data, gets) ==
    IF indexKeys = <<>> THEN [ok |-> TRUE, data |-> data, gets |-> gets]
    ELSE LET obj == GetObjectFromIndex(bucket, Head(indexKeys))
         IN  FetchLoop_SkipFailed(bucket, Tail(indexKeys),
                                  IF obj.ok THEN Append(data, obj.data) ELSE data,
                                  Append(gets, Head(indexKeys)))

\* The loop of GetObjectsFromIndexKeys: data fetched so far, the GetObject calls
\* made, stopping at the first error.
RECURSIVE FetchLoop(_, _, _, _)
FetchLoop(bucket, indexKeys, data, gets) ==
    IF indexKeys = <<>> THEN [ok |-> TRUE, data |-> data, gets |-> gets]
    ELSE LET obj == GetObjectFromIndex(bucket, Head(indexKeys))
         IN  IF ~obj.ok THEN [ok |-> FALSE, data |-> <<>>, gets |-> Append(gets, Head(indexKeys))]
             ELSE FetchLoop(bucket, Tail(indexKeys), Append(data, obj.data),
                            Append(gets, Head(indexKeys)))

GetObjectsFromIndexKeys(indexKeys) ==
    /\ resp = NoResp
    /\ LET r == FetchLoop(blobs, indexKeys, <<>>, <<>>)
       IN  resp' = [op |-> "fetch", keys |-> indexKeys, ok |-> r.ok, data |-> r.data, gets |-> r.gets]
    /\ UNCHANGED <<blobs, rows, pc, call>>

\* The caller has the result of its call and goes on to the next one.
RepoReturn ==
    /\ resp # NoResp
    /\ resp' = NoResp
    /\ UNCHANGED <<blobs, rows, pc, call>>

(***************************************************************************)
(* Codec inputs and state.                                                 *)
(***************************************************************************)
VARIABLES
    cIn,      \* the Index given to the codec, and which codec it is for
    cPeer,    \* a second timestamp, for comparing two records
    cPhase,   \* "off", "input", "encoded" or "decoded"
    cKey,     \* what EncodeIndex returned for cIn
    cPeerKey, \* what EncodeIndex returned for cIn with cPeer as its timestamp
    cDec      \* what DecodeIndex returned for cKey

VARIABLES
    eHdr,     \* the event header given to the conversions
    eNow,     \* what time.Now() returns during a first key derivation
    eNow2,    \* what time.Now() returns during a second key derivation
    ePhase,   \* "off", "input", "derived" or "strict"
    eOut      \* what the conversions returned

codecVars == <<cIn, cPeer, cPhase, cKey, cPeerKey, cDec>>
eventVars == <<eHdr, eNow, eNow2, ePhase, eOut>>
vars == <<blobs, rows, pc, call, resp, cIn, cPeer, cPhase, cKey, cPeerKey, cDec,
          eHdr, eNow, eNow2, ePhase, eOut>>

NoKey == [ok |-> FALSE, key |-> <<>>]

CodecOff ==
    /\ cIn = [kind |-> "none"]
    /\ cPeer = ZeroTime
    /\ cPhase = "off"
    /\ cKey = NoKey
    /\ cPeerKey = NoKey
    /\ cDec = [ok |-> FALSE]

\* Timestamps given to the codec: the README's dates, two times of one day, the
\* ends of the accepted range, and years outside it.
CodecTimes ==
    {Time(2020, 6, 2, 12, 0, 0), Time(2024, 6, 11, 10, 0, 0), Time(2024, 6, 11, 23, 59, 59),
     Time(2000, 1, 1, 0, 0, 0), Time(2099, 12, 31, 23, 59, 59),
     Time(1999, 12, 31, 23, 59, 59), Time(2100, 1, 1, 0, 0, 0), ZeroTime}

\* Data versions: empty, short, starting with the pad character, exactly
\* DataTypeLength long, one longer, and one of 43 characters.
CodecDataTypes ==
    {<<>>, <<"v", "1">>, <<"!", "v", "1">>,
     <<"v">> \o Repeat("1", DataTypeLength - 1), <<"v">> \o Repeat("2", DataTypeLength),
     <<"v", "/">> \o Repeat("3", DataTypeLength) \o Repeat("4", DataTypeLength + 1)}

CodecOptionals == {<<>>, <<"x", "/", "1">>}

\* Index values of index.go: Subject and Producer are NFTDIDs, Source an address.
NFTIndexes ==
    [Subject : {Did2},
     Timestamp : CodecTimes,
     PrimaryFiller : {<<>>, <<"M", "M">>, <<"A", "B">>, <<"A", "B", "C">>},
     Source : {AddrA},
     DataType : CodecDataTypes,
     Producer : {Did1},
     SecondaryFiller : {<<>>, <<"0">>, <<"0", "0">>, <<"0", "1">>},
     Optional : CodecOptionals]
    \cup {[Subject |-> d.s, Timestamp |-> Time(2024, 6, 11, 10, 0, 0),
           PrimaryFiller |-> <<"M", "M">>, Source |-> AddrA, DataType |-> <<"v", "1">>,
           Producer |-> d.p, SecondaryFiller |-> <<"0", "0">>, Optional |-> <<>>] :
          d \in {[s |-> [ChainID |-> 0, ContractAddress |-> [i \in 1..AddressLength |-> 0],
                         TokenID |-> 0],
                  p |-> [ChainID |-> 2147483647,
                         ContractAddress |-> [i \in 1..AddressLength |-> 15],
                         TokenID |-> 2147483647]],
                 [s |-> [ChainID |-> 2147483647,
                         ContractAddress |-> [i \in 1..AddressLength |-> 15],
                         TokenID |-> 2147483647],
                  p |-> [ChainID |-> 1, ContractAddress |-> AddrB, TokenID |-> 65536]]}}

\* Index values of the string-field codec.
StrIndexes ==
    [Subject : {EncodeNFTDID(Did2).val, <<"a", "b", "c">>},
     Timestamp : CodecTimes,
     PrimaryFiller : {<<>>, <<"A">>, <<"A", "B", "C">>},
     Source : {<<"0", "x">> \o EncodeAddress(AddrA)},
     DataType : {<<"v", "1">>, <<"!", "v", "1">>, <<"v">> \o Repeat("2", DataTypeLength)},
     Producer : {EncodeNFTDID(Did1).val},
     SecondaryFiller : {<<"0", "1">>},
     Optional : CodecOptionals]
    \cup {[Subject |-> EncodeNFTDID(Did2).val, Timestamp |-> ts,
           PrimaryFiller |-> f.p, Source |-> <<"0", "x">> \o EncodeAddress(AddrA),
           DataType |-> <<"v", "1">>, Producer |-> EncodeNFTDID(Did1).val,
           SecondaryFiller |-> f.s, Optional |-> <<>>] :
              ts \in {Time(2024, 6, 11, 10, 0, 0), Time(2100, 1, 1, 0, 0, 0)},
              f \in {[p |-> <<"M", "M", "M">>, s |-> <<"0", "0", "0">>],
                      [p |-> <<"M">>, s |-> <<"7">>],
                      [p |-> <<>>, s |-> <<>>],
                      [p |-> <<"A", "B", "C", "D">>, s |-> <<"1", "2", "3">>]}}

\* Strings given to DecodeIndex: a key and its key with an optional tail, cut
\* to lengths below TotalLength, and with other date segments: dates at the
\* ends of the range, months and days out of range, a day its month does not
\* have, a letter, and signed numbers.
RawKeys ==
    LET key == EncodeIndex([Subject |-> Did2, Timestamp |-> Time(2024, 6, 11, 10, 0, 0),
                            PrimaryFiller |-> <<"M", "M">>, Source |-> AddrA,
                            DataType |-> <<"v", "1">>, Producer |-> Did1,
                            SecondaryFiller |-> <<"0", "0">>, Optional |-> <<>>]).key
        dates == {<<"7", "5", "9", "3", "8", "8">>, <<"9", "9", "9", "8", "9", "8">>,
                  <<"0", "0", "8", "7", "6", "8">>, <<"9", "9", "9", "9", "9", "9">>,
                  <<"0", "0", "0", "0", "0", "0">>, <<"7", "5", "8", "6", "9", "8">>,
                  <<"7", "5", "9", "3", "6", "7">>, <<"7", "5", "9", "3", "9", "9">>,
                  <<"7", "5", "9", "7", "6", "8">>, <<"7", "5", "9", "3", "8", "x">>,
                  <<"+", "5", "9", "3", "8", "8">>, <<"-", "0", "1", "2", "3", "1">>,
                  <<"-", "0", "0", "0", "0", "1">>}
    IN  {SubSeq(key, 1, n) : n \in {0, 1, 63, 64, 70, 139, 203}}
        \cup {key \o <<"x", "/", "1">>}
        \cup {SubSeq(key, 1, 64) \o d \o SubSeq(key, 71, Len(key)) : d \in dates}

CodecInputs ==
    {[kind |-> "nft", nft |-> i] : i \in NFTIndexes}
        \cup {[kind |-> "str", str |-> i] : i \in StrIndexes}
        \cup {[kind |-> "nil", nft |-> NilIndex]}
        \cup {[kind |-> "raw", raw |-> k] : k \in RawKeys}

InitCodec ==
    /\ cIn \in CodecInputs
    /\ cPeer \in CodecTimes
    /\ cPhase = "input"
    /\ cKey = NoKey
    /\ cPeerKey = NoKey
    /\ cDec = [ok |-> FALSE]

\* index.go EncodeIndex applied to the input and to its peer.
EncodeNFT ==
    /\ cPhase = "input" /\ cIn.kind \in {"nft", "nil"}
    /\ cKey' = EncodeIndex(cIn.nft)
    /\ cPeerKey' = IF IsNil(cIn.nft) THEN EncodeIndex(cIn.nft)
                   ELSE EncodeIndex([cIn.nft EXCEPT !.Timestamp = cPeer])
    /\ cPhase' = "encoded"
    /\ UNCHANGED <<cIn, cPeer, cDec>>

\* index.go DecodeIndex applied to the key.
DecodeNFT ==
    /\ cPhase = "encoded" /\ cIn.kind = "nft" /\ cKey.ok
    /\ cDec' = DecodeIndex(cKey.key)
    /\ cPhase' = "decoded"
    /\ UNCHANGED <<cIn, cPeer, cKey, cPeerKey>>

\* EncodeIndex of the input's codec applied to the input with its timestamp
\* in a location at the given offset, and with the same instant in UTC.
EncodeZoned(offset) ==
    /\ cPhase = "input" /\ cIn.kind \in {"nft", "str"}
    /\ LET zoned == [(IF cIn.kind = "nft" THEN cIn.nft ELSE cIn.str).Timestamp
                        EXCEPT !.offset = offset]
       IN  /\ cPeer' = zoned
           /\ cKey' = IF cIn.kind = "nft"
                      THEN EncodeIndex([cIn.nft EXCEPT !.Timestamp = zoned])
                      ELSE StrEncodeIndex([cIn.str EXCEPT !.Timestamp = zoned])
           /\ cPeerKey' = IF cIn.kind = "nft"
                          THEN EncodeIndex([cIn.nft EXCEPT !.Timestamp = UTC(zoned)])
                          ELSE StrEncodeIndex([cIn.str EXCEPT !.Timestamp = UTC(zoned)])
    /\ cPhase' = "zoned"
    /\ UNCHANGED <<cIn, cDec>>

\* DecodeIndex of either codec applied to a string as given.
DecodeRaw ==
    /\ cPhase = "input" /\ cIn.kind = "raw"
    /\ cDec' = [nft |-> DecodeIndex(cIn.raw), str |-> StrDecodeIndex(cIn.raw)]
    /\ cPhase' = "rawdecoded"
    /\ UNCHANGED <<cIn, cPeer, cKey, cPeerKey>>

\* The string-field EncodeIndex applied to the input and to its peer.
EncodeStr ==
    /\ cPhase = "input" /\ cIn.kind = "str"
    /\ cKey' = StrEncodeIndex(cIn.str)
    /\ cPeerKey' = StrEncodeIndex([cIn.str EXCEPT !.Timestamp = cPeer])
    /\ cPhase' = "encoded"
    /\ UNCHANGED <<cIn, cPeer, cDec>>

\* The string-field DecodeIndex applied to the key.
DecodeStr ==
    /\ cPhase = "encoded" /\ cIn.kind = "str" /\ cKey.ok
    /\ cDec' = StrDecodeIndex(cKey.key)
    /\ cPhase' = "decoded"
    /\ UNCHANGED <<cIn, cPeer, cKey, cPeerKey>>

(***************************************************************************)
(* Event headers given to the conversions.                                 *)
(***************************************************************************)
NoOut == [op |-> "none"]

EventOff ==
    /\ eHdr = [nil |-> TRUE]
    /\ eNow = ZeroTime
    /\ eNow2 = ZeroTime
    /\ ePhase = "off"
    /\ eOut = NoOut

\* Headers; their timestamps are in range, unset, and out of range on either
\* side.
Headers ==
    [ID : {<<"1">>},
     Subject : {NFTDIDString(Did2), BadDID, BadAddressDID},
     Producer : {NFTDIDString(Did1), BadDID},
     Source : {AddressHex(AddrA), BadSource},
     Time : {T1, ZeroTime, TOld, Time(2100, 1, 1, 0, 0, 0)},
     Type : {"dimo.status", "dimo.fingerprint", "dimo.verifiablecredential", "dimo.other"},
     DataVersion : {<<"v", "1">>}]

\* Clock readings: two in the range the date part can carry and one past it.
Nows == {T2, Time(2024, 6, 12, 9, 30, 15), Time(2100, 1, 1, 0, 0, 0)}

InitEvent ==
    /\ eHdr \in Headers
    /\ eNow \in Nows
    /\ eNow2 \in Nows
    /\ ePhase = "input"
    /\ eOut = NoOut

\* The index key of one header derived twice, at two clock readings.
DeriveKey ==
    /\ ePhase = "input"
    /\ eOut' = [op |-> "derive",
                first |-> CloudEventToSlice(eHdr, eNow),
                second |-> CloudEventToSlice(eHdr, eNow2)]
    /\ ePhase' = "derived"
    /\ UNCHANGED <<eHdr, eNow, eNow2>>

\* The strict conversion and EncodeCloudEvent of the header, DecodeCloudEvent
\* of the key when there is one, and the best-effort conversion of the same
\* header with the same filler and its key.
StrictEncode ==
    /\ ePhase = "input"
    /\ LET key == EncodeCloudEvent(eHdr, DefaultSecondaryFiller)
           partial == CloudEventToPartialIndex(eHdr, DefaultSecondaryFiller, eNow)
       IN  eOut' = [op |-> "strict",
                    index |-> CloudEventToCloudIndex(eHdr, DefaultSecondaryFiller),
                    key |-> key,
                    decoded |-> IF key.ok THEN DecodeCloudEvent(key.key)
                                ELSE [ok |-> FALSE, err |-> "nokey"],
                    partial |-> partial,
                    partialKey |-> StrEncodeIndex(partial)]
    /\ ePhase' = "strict"
    /\ UNCHANGED <<eHdr, eNow, eNow2>>

(***************************************************************************)
(* Concurrent Store calls.                                                 *)
(***************************************************************************)
Init == InitRepo /\ CodecOff /\ EventOff

Next ==
    \/ \E p \in Procs : \E index \in StoreIndexes : \E data \in Payloads :
          StoreBegin(p, index, data) /\ UNCHANGED <<codecVars, eventVars>>
    \/ \E p \in Procs : PutObjectOk(p) /\ UNCHANGED <<codecVars, eventVars>>
    \/ \E p \in Procs : PutObjectFail(p) /\ UNCHANGED <<codecVars, eventVars>>
    \/ \E p \in Procs : InsertOk(p) /\ UNCHANGED <<codecVars, eventVars>>
    \/ \E p \in Procs : InsertFail(p) /\ UNCHANGED <<codecVars, eventVars>>
    \/ \E p \in Procs : StoreReturn(p) /\ UNCHANGED <<codecVars, eventVars>>

Spec == Init /\ [][Next]_vars

(***************************************************************************)
(* One sequential caller storing and querying.                             *)
(***************************************************************************)
NextRepo ==
    \/ \E event \in RepoEvents :
          StoreCloudEvent(event) /\ UNCHANGED <<codecVars, eventVars>>
    \/ \E event \in RepoEvents : \E now \in RepoNows :
          StorePartialCloudEvent(event, now) /\ UNCHANGED <<codecVars, eventVars>>
    \/ \E opts \in SearchOptions : GetLatestIndexKey(opts) /\ UNCHANGED <<codecVars, eventVars>>
    \/ \E limit \in 1..MaxLimit : \E opts \in SearchOptions :
          GetIndexKeys(limit, opts) /\ UNCHANGED <<codecVars, eventVars>>
    \/ \E indexKeys \in KeyLists : GetObjectsFromIndexKeys(indexKeys) /\ UNCHANGED <<codecVars, eventVars>>
    \/ RepoReturn /\ UNCHANGED <<codecVars, eventVars>>

SpecRepo == Init /\ [][NextRepo]_vars

(***************************************************************************)
(* The codecs applied to bounded inputs.                                   *)
(***************************************************************************)
InitCodecSpec == InitRepo /\ InitCodec /\ EventOff

NextCodec ==
    \/ EncodeNFT /\ UNCHANGED <<repoVars, eventVars>>
    \/ DecodeNFT /\ UNCHANGED <<repoVars, eventVars>>
    \/ EncodeStr /\ UNCHANGED <<repoVars, eventVars>>
    \/ DecodeStr /\ UNCHANGED <<repoVars, eventVars>>
    \/ DecodeRaw /\ UNCHANGED <<repoVars, eventVars>>
    \/ \E offset \in {-5, 2} : EncodeZoned(offset) /\ UNCHANGED <<repoVars, eventVars>>

SpecCodec == InitCodecSpec /\ [][NextCodec]_vars

(***************************************************************************)
(* The event conversions applied to bounded headers.                       *)
(***************************************************************************)
InitEventSpec == InitRepo /\ CodecOff /\ InitEvent

NextEvent ==
    \/ DeriveKey /\ UNCHANGED <<repoVars, codecVars>>
    \/ StrictEncode /\ UNCHANGED <<repoVars, codecVars>>

SpecEvent == InitEventSpec /\ [][NextEvent]_vars

(***************************************************************************)
(* Properties of concurrent Store calls (checked under Spec).              *)
(***************************************************************************)
\* C1: storeObject puts the payload under the index key first and attempts the
\* insert only after the put has returned successfully; so in every state
\* reachable by interleaving concurrent Store calls, every row of the index
\* table has a blob stored under its index key.
C1_RowsHaveBlobs ==
    /\ \A p \in Procs : pc[p] = "insert" => call[p].key \in DOMAIN blobs
    /\ \A r \in BagToSet(rows) : r.index_key \in DOMAIN blobs

\* One call has inserted its row while another is between its put and insert.
C1_Witness ==
    /\ BagCardinality(rows) >= 1
    /\ \E p \in Procs : pc[p] = "insert"

\* C10: when the put succeeded and the insert fails, Store returns the insert
\* error and deletes nothing: the blob is still in the bucket when the call
\* returns, possibly with no row for it, while no row is ever without a blob.
C10_NoRollback ==
    /\ \A p \in Procs :
          (pc[p] = "done" /\ call[p].outcome = "insert_error")
              => call[p].key \in DOMAIN blobs
    /\ \A r \in BagToSet(rows) : r.index_key \in DOMAIN blobs

\* An orphaned blob: the failed call's key is in the bucket and in no row.
C10_Witness ==
    \E p \in Procs :
        /\ pc[p] = "done"
        /\ call[p].outcome = "insert_error"
        /\ call[p].key \in DOMAIN blobs
        /\ \A r \in BagToSet(rows) : r.index_key # call[p].key

(***************************************************************************)
(* Properties of the queries (checked under SpecRepo).                     *)
(***************************************************************************)
\* C6: a successful latest lookup returns the key of a matching row whose
\* timestamp is the maximum over all matching rows, whatever TimestampAsc is.
C6_LatestIsMax ==
    (resp.op = "latest" /\ resp.ok) =>
        \E r \in Matching(rows, resp.opts) :
            /\ r.index_key = resp.key
            /\ \A y \in Matching(rows, resp.opts) : ~TimeAfter(y.timestamp, r.timestamp)

\* A lookup with the ascending flag set over two matching rows of different
\* times returned the later one.
C6_Witness ==
    /\ resp.op = "latest" /\ resp.ok /\ resp.opts.TimestampAsc
    /\ \E a \in Matching(rows, resp.opts) : \E b \in Matching(rows, resp.opts) :
          TimeAfter(a.timestamp, b.timestamp) /\ a.index_key = resp.key

\* C7: a latest lookup or a list whose criteria match no row returns the
\* not-found error (sql.ErrNoRows) and a successful result is never empty,
\* whether the table is empty or holds only rows that do not match.
C7_NotFound ==
    /\ (resp.op \in {"latest", "list"} /\ Matching(rows, resp.opts) = {})
          => (~resp.ok /\ resp.err = "ErrNoRows")
    /\ (resp.op = "latest" /\ resp.ok) => resp.key # <<>>
    /\ (resp.op = "list" /\ resp.ok) => resp.keys # <<>>

\* A list over a table that has rows, none of which match.
C7_Witness ==
    /\ resp.op = "list" /\ ~resp.ok /\ resp.err = "ErrNoRows"
    /\ rows # EmptyBag
    /\ Matching(rows, resp.opts) = {}

\* C8: a successful list with limit N returns at most N rows, all matching, in
\* decreasing timestamp order by default and increasing order when TimestampAsc
\* is set, and no row left out comes before a returned one in that order (the
\* N most recent, or the N oldest).
C8_ListLimitOrder ==
    (resp.op = "list" /\ resp.ok) =>
        LET sel == resp.sel
            m == Matching(rows, resp.opts)
            asc == resp.opts.TimestampAsc
        IN  /\ Len(sel) <= resp.limit
            /\ Len(resp.keys) = Len(sel)
            /\ \A i \in 1..Len(sel) : sel[i] \in m /\ resp.keys[i] = sel[i].index_key
            /\ \A r \in m : Occurrences(sel, r) <= CopiesIn(r, rows)
            /\ \A i \in 1..Len(sel) : \A j \in 1..Len(sel) :
                  i < j => IF asc THEN ~TimeAfter(sel[i].timestamp, sel[j].timestamp)
                           ELSE ~TimeBefore(sel[i].timestamp, sel[j].timestamp)
            /\ \A r \in m : Occurrences(sel, r) < CopiesIn(r, rows) =>
                  \A i \in 1..Len(sel) :
                      IF asc THEN ~TimeAfter(sel[i].timestamp, r.timestamp)
                      ELSE ~TimeBefore(sel[i].timestamp, r.timestamp)

\* A default-order list with limit 1 over two matching rows of different times.
C8_Witness ==
    /\ resp.op = "list" /\ resp.ok /\ ~resp.opts.TimestampAsc /\ resp.limit = 1
    /\ \E a \in Matching(rows, resp.opts) : \E b \in Matching(rows, resp.opts) :
          TimeAfter(a.timestamp, b.timestamp) /\ resp.keys = <<a.index_key>>

\* C9: a fetch for a list of keys makes exactly one GetObject call per distinct
\* key and gives every position of a repeated key the same content.
C9_OneGetPerKey ==
    (resp.op = "fetch" /\ resp.ok) =>
        /\ \A k \in RepoKeys : Occurrences(resp.gets, k) <= 1
        /\ \A i \in 1..Len(resp.keys) : \A j \in 1..Len(resp.keys) :
              resp.keys[i] = resp.keys[j] => resp.data[i] = resp.data[j]

(***************************************************************************)
(* Properties of the codecs (checked under SpecCodec).                     *)
(***************************************************************************)
\* The Index the codec was given, of either kind.
CodecIndex == IF cIn.kind = "nft" THEN cIn.nft ELSE cIn.str

CodecEncoded == cPhase \in {"encoded", "decoded"}

\* The inputs C2 speaks of: an index.go Index with fillers of exactly
\* FillerLength characters, a data version of at most DataTypeLength
\* characters and a year in 2000..2099.
C2_Accepted ==
    /\ cIn.kind = "nft"
    /\ Len(cIn.nft.PrimaryFiller) = FillerLength
    /\ Len(cIn.nft.SecondaryFiller) = FillerLength
    /\ Len(cIn.nft.DataType) <= DataTypeLength
    /\ cIn.nft.Timestamp.year >= 2000 /\ cIn.nft.Timestamp.year <= 2099

C3_KeyLayout ==
    (CodecEncoded /\ cKey.ok) =>
        LET k == cKey.key
            i == CodecIndex
            ts == i.Timestamp
        IN  /\ TotalLength = 204
            /\ Len(k) = 204 + Len(i.Optional)
            /\ Atoi(Slice(k, 64, 70)).ok
            /\ Atoi(Slice(k, 64, 70)).val
                  = 999999 - ((ts.year % 100) * 10000 + ts.month * 100 + ts.day)
            /\ Slice(k, 70, 76)
                  = FormatPadded(ts.hour, 2) \o FormatPadded(ts.minute, 2) \o FormatPadded(ts.second, 2)
            /\ Slice(k, 204, Len(k)) = i.Optional
            /\ cIn.kind = "nft" =>
                  /\ Slice(k, 0, 64) = EncodeNFTDID(i.Subject).val
                  /\ Slice(k, 76, 78) = WithDefaults(i).PrimaryFiller
                  /\ Slice(k, 78, 118) = EncodeAddress(i.Source)
                  /\ Slice(k, 118, 138) = EncodeDataType(i.DataType)
                  /\ Slice(k, 138, 140) = WithDefaults(i).SecondaryFiller
                  /\ Slice(k, 140, 204) = EncodeNFTDID(i.Producer).val
            /\ cIn.kind = "str" =>
                  /\ Slice(k, 0, 64) = EncodeSubject(i.Subject)
                  /\ Slice(k, 76, 78) = EncodePrimaryFiller(i.PrimaryFiller)
                  /\ Slice(k, 78, 118) = EncodeSource(HexToAddress(i.Source))
                  /\ Slice(k, 118, 138) = EncodeDataType(i.DataType)
                  /\ Slice(k, 138, 140) = EncodeSecondaryFiller(i.SecondaryFiller)
                  /\ Slice(k, 140, 204) = EncodeProducer(i.Producer)

\* An over-long data version and an optional tail were encoded.
C3_Witness ==
    /\ CodecEncoded /\ cKey.ok
    /\ Len(CodecIndex.DataType) > DataTypeLength
    /\ Len(cKey.key) = 204 + Len(CodecIndex.Optional)
    /\ CodecIndex.Optional # <<>>

C5_DateSegmentInverted ==
    (CodecEncoded /\ cKey.ok /\ cPeerKey.ok) =>
        LET ts == CodecIndex.Timestamp
            a == Slice(cKey.key, 64, 70)
            b == Slice(cPeerKey.key, 64, 70)
        IN  /\ Len(a) = 6 /\ \A n \in 1..6 : IsDecDigit(a[n])
            /\ Atoi(a).val = 999999 - ((ts.year % 100) * 10000 + ts.month * 100 + ts.day)
            /\ DateNumber(cPeer) > DateNumber(ts) =>
                  /\ Atoi(b).val < Atoi(a).val
                  /\ StrLess(b, a)

\* The dates 2020-06-02 and 2024-06-11 were encoded.
C5_Witness ==
    /\ CodecEncoded /\ cKey.ok /\ cPeerKey.ok
    /\ DateNumber(CodecIndex.Timestamp) = 20200602
    /\ DateNumber(cPeer) = 20240611
    /\ StrLess(Slice(cPeerKey.key, 64, 70), Slice(cKey.key, 64, 70))

(***************************************************************************)
(* Claims about the event conversions (SpecEvent).                         *)
(***************************************************************************)
YearInRange(t) == t.year >= 2000 /\ t.year <= 2099

\* C11: for any non-nil header, also one with a non-DID subject or
\* producer, a non-address source and a zero or out-of-range timestamp, the
\* best-effort conversion returns a record (raw strings kept for the parts
\* that do not parse) and key derivation returns a non-empty key: the
\* fixed-layout key when the record encodes, and otherwise the synthetic
\* id_source_time_subject string.
C11_DeriveKeyNeverFails ==
    ePhase = "derived" =>
        LET out == eOut.first
            ts == out.index.Timestamp
        IN  /\ out.key # <<>>
            /\ ts \in {eHdr.Time, eNow}
            /\ eHdr.Subject = BadDID => out.index.Subject = BadDID
            /\ eHdr.Producer = BadDID => out.index.Producer = BadDID
            /\ eHdr.Source = BadSource => out.index.Source = BadSource
            /\ IF YearInRange(ts)
               THEN Len(out.key) >= TotalLength
               ELSE out.key = eHdr.ID \o <<"_">> \o eHdr.Source \o <<"_">>
                              \o FormatRFC3339(eHdr.Time) \o <<"_">> \o eHdr.Subject

\* A header with nothing that parses whose best-effort record does not encode.
C11_Witness ==
    /\ ePhase = "derived"
    /\ eHdr.Subject = BadDID
    /\ eHdr.Producer = BadDID
    /\ eHdr.Source = BadSource
    /\ eHdr.Time = ZeroTime
    /\ ~eOut.first.encoded
    /\ eOut.second.encoded

\* C12 as stated: deriving the index key of one header at any two points in
\* time yields the same key.
C12_DeterministicAsStated ==
    ePhase = "derived" => eOut.first.key = eOut.second.key

\* C12: deriving the index key of one header at two points in time yields
\* the same key when the header's timestamp is set and its year is in
\* [2000, 2099]; otherwise the key carries the clock reading and two
\* derivations at different readings in that range yield different keys.
C12_DeterministicForValidTime ==
    ePhase = "derived" =>
        /\ YearInRange(eHdr.Time) => eOut.first.key = eOut.second.key
        /\ (~YearInRange(eHdr.Time) /\ YearInRange(eNow) /\ YearInRange(eNow2)
                /\ eNow # eNow2)
           => eOut.first.key # eOut.second.key

\* A header with a valid timestamp whose key was derived at two different
\* clock readings.
C12_Witness ==
    /\ ePhase = "derived"
    /\ YearInRange(eHdr.Time)
    /\ eNow # eNow2
    /\ eOut.first.encoded
    /\ eOut.first.key = eOut.second.key

\* C13: the strict conversion and EncodeCloudEvent return an error, no
\* record and the empty key whenever the subject or the producer is no valid
\* NFT DID, the source is no hex address, or the timestamp's year is outside
\* [2000, 2099]; a header with none of these faults converts, and the record
\* carries the header's own timestamp and parsed parts.
C13_StrictRejects ==
    ePhase = "strict" =>
        LET malformed == \/ eHdr.Subject \in {BadDID, BadAddressDID}
                         \/ eHdr.Producer = BadDID
                         \/ eHdr.Source = BadSource
                         \/ ~YearInRange(eHdr.Time)
        IN  IF malformed
            THEN /\ ~eOut.index.ok
                 /\ DOMAIN eOut.index = {"ok", "err"}
                 /\ ~eOut.key.ok
                 /\ eOut.key.key = <<>>
            ELSE /\ eOut.index.ok
                 /\ eOut.index.index.Timestamp = eHdr.Time
                 /\ NFTDIDString(eOut.index.index.Subject) = eHdr.Subject
                 /\ NFTDIDString(eOut.index.index.Producer) = eHdr.Producer
                 /\ AddressHex(eOut.index.index.Source) = eHdr.Source
                 /\ eOut.key.ok
                 /\ Len(eOut.key.key) = TotalLength

\* A header whose only fault is its source, refused by the strict conversion.
C13_Witness ==
    /\ ePhase = "strict"
    /\ eHdr.Subject = NFTDIDString(Did2)
    /\ eHdr.Producer = NFTDIDString(Did1)
    /\ eHdr.Source = BadSource
    /\ YearInRange(eHdr.Time)
    /\ ~eOut.index.ok
    /\ eOut.index.err = "source"

(***************************************************************************)
(* Claims about storing events and searching for them (SpecRepo).          *)
(***************************************************************************)
\* The header has a subject, producer or source that does not parse.
Malformed(hdr) ==
    hdr.Subject = BadDID \/ hdr.Producer = BadDID \/ hdr.Source = BadSource

TimeFields(t) == <<t.year, t.month, t.day, t.hour, t.minute, t.second>>

\* a is strictly later than b.
StrictlyLater(a, b) ==
    \E i \in 1..6 :
        /\ TimeFields(a)[i] > TimeFields(b)[i]
        /\ \A j \in 1..(i - 1) : TimeFields(a)[j] = TimeFields(b)[j]

\* The row passes one test per criterion that is present.
Considered(o, r) ==
    /\ o.After # ZeroTime => StrictlyLater(r.timestamp, o.After)
    /\ o.Before # ZeroTime => StrictlyLater(o.Before, r.timestamp)
    /\ o.Type.set => r.primary_filler = <<"M">> \o CloudTypeToFiller(o.Type.val)
    /\ o.DataVersion.set =>
          r.data_type = Repeat("!", DataTypeLength - Len(o.DataVersion.val)) \o o.DataVersion.val
    /\ o.Subject.set => r.subject = o.Subject.val
    /\ o.Source.set => r.source = <<"0", "x">> \o SubSeq(AddressHex(HexToAddress(o.Source.val)), 3, AddressLength)
    /\ o.Producer.set => r.producer = o.Producer.val
    /\ o.Optional.set => r.optional = o.Optional.val

\* C15: the rows a latest lookup or a list considers are exactly those that
\* pass one test per present criterion: timestamp strictly after After,
\* strictly before Before, and equality with the encoded value for every
\* other field; absent criteria filter nothing.  A latest lookup returns the
\* key of a considered row, a list returns considered rows only and as many
\* as the limit and their number allow, and either is not-found exactly
\* when no row is considered.
C15_ConjunctionOfPredicates ==
    resp.op \in {"latest", "list"} =>
        LET m == {r \in BagToSet(rows) : Considered(resp.opts, r)}
        IN  /\ resp.ok <=> m # {}
            /\ (resp.op = "latest" /\ resp.ok) => \E r \in m : r.index_key = resp.key
            /\ (resp.op = "list" /\ resp.ok) =>
                  /\ \A i \in 1..Len(resp.sel) : resp.sel[i] \in m
                  /\ Len(resp.sel) = Min(resp.limit, SumCopies(rows, m))

\* A list with After set over a table that has a row exactly at After and a
\* later one: only the later one is returned.
C15_Witness ==
    /\ resp.op = "list" /\ resp.ok
    /\ resp.opts.After = T1 /\ resp.opts.Before = ZeroTime /\ ~resp.opts.Subject.set
    /\ \E r \in BagToSet(rows) : r.timestamp = T1
    /\ BagCardinality(rows) = 2
    /\ Len(resp.sel) = 1
    /\ resp.sel[1].timestamp = T2

\* The events whose header converts strictly, each with the key derived from
\* its header.
KeyOfEvent ==
    [e \in {x \in RepoEvents : StrictIndexOf[x].ok} |-> CloudEventToSlice(e.hdr, T2).key]

\* The event's row is in the table: a Store of it has succeeded.
Stored(e) == \E r \in BagToSet(rows) : r.index_key = KeyOfEvent[e]

\* Latest lookups by the event's own subject and data version.
OwnLookups ==
    [e \in DOMAIN KeyOfEvent |->
        {ToRawSearchOptions([NoCriteria EXCEPT
                                !.Subject = Some(DecodeNFTDID(e.hdr.Subject).did),
                                !.DataVersion = Some(e.hdr.DataVersion),
                                !.TimestampAsc = asc]) : asc \in BOOLEAN}]

\* C16 as stated: once a Store of e has succeeded, a latest lookup by e's own
\* subject and data version succeeds and returns e's key unless a matching
\* row with a later timestamp is stored.
C16_LatestFindsStoredAsStated ==
    resp.op = "latest" => \A e \in DOMAIN KeyOfEvent :
        (resp.opts \in OwnLookups[e] /\ Stored(e)) =>
            /\ resp.ok
            /\ (\A r \in BagToSet(rows) :
                    (r.subject = EncodeNFTDID(Did1).val /\ r.data_type[DataTypeLength] = "1")
                        => ~StrictlyLater(r.timestamp, e.hdr.Time))
               => resp.key = KeyOfEvent[e]

\* C16: once a Store of e has succeeded, a latest lookup by e's own subject
\* and data version succeeds, and it returns e's key unless another matching
\* row with a later or the same timestamp is stored.
C16_LatestFindsStored ==
    resp.op = "latest" => \A e \in DOMAIN KeyOfEvent :
        (resp.opts \in OwnLookups[e] /\ Stored(e)) =>
            /\ resp.ok
            /\ (\A r \in BagToSet(rows) :
                    (r.subject = EncodeNFTDID(Did1).val /\ r.data_type[DataTypeLength] = "1"
                        /\ r.index_key # KeyOfEvent[e])
                        => StrictlyLater(e.hdr.Time, r.timestamp))
               => resp.key = KeyOfEvent[e]

\* The later of two stored events of one subject, found by its subject and
\* data version.
C16_Witness ==
    /\ resp.op = "latest" /\ resp.ok
    /\ \E e \in DOMAIN KeyOfEvent :
          /\ e.hdr.Time = T2
          /\ resp.opts \in OwnLookups[e]
          /\ Stored(e)
          /\ resp.key = KeyOfEvent[e]
          /\ \E r \in BagToSet(rows) : r.timestamp = T1 /\ r.subject = resp.opts.Subject.val

(***************************************************************************)
(* Claims about the data version and the validation of EncodeIndex         *)
(* (SpecCodec).                                                            *)
(***************************************************************************)
\* Nothing but the data version can make EncodeIndex refuse the input.
RestValid ==
    /\ cIn.kind \in {"nft", "str"}
    /\ YearInRange(CodecIndex.Timestamp)
    /\ cIn.kind = "nft" =>
          /\ Len(cIn.nft.PrimaryFiller) \in {0, FillerLength}
          /\ Len(cIn.nft.SecondaryFiller) \in {0, FillerLength}

\* C17: EncodeIndex refuses no record for the length of its data version,
\* and the key carries it as exactly 20 characters: the first 20 of a longer
\* value, a shorter one behind '!' padding; decoding the key of a
\* 43-character data version gives its first 20 characters.
C17_DataTypeAlways20 ==
    (CodecEncoded /\ RestValid) =>
        LET v == CodecIndex.DataType
            field == SubSeq(cKey.key, 119, 138)
        IN  /\ cKey.ok
            /\ Len(field) = 20
            /\ Len(v) > 20 => field = SubSeq(v, 1, 20)
            /\ Len(v) <= 20 =>
                  /\ SubSeq(field, 21 - Len(v), 20) = v
                  /\ \A n \in 1..(20 - Len(v)) : field[n] = "!"
            /\ (cPhase = "decoded" /\ Len(v) = 43) =>
                  (cDec.ok /\ cDec.index.DataType = SubSeq(v, 1, 20))

\* The key of a record with a 43-character data version has been decoded.
C17_Witness ==
    /\ cPhase = "decoded" /\ cIn.kind = "nft"
    /\ Len(cIn.nft.DataType) = 43
    /\ cDec.ok
    /\ Len(cDec.index.DataType) = 20

\* C18 as stated: for every data version of at most 20 characters,
\* DecodeDataType(EncodeDataType(v)) = v: the decoded data version of a key
\* is the one that was encoded.
C18_DataTypeRoundTripAsStated ==
    (cPhase = "decoded" /\ cDec.ok /\ Len(CodecIndex.DataType) <= DataTypeLength)
        => cDec.index.DataType = CodecIndex.DataType

\* C18: for every data version of at most 20 characters that does not begin
\* with the pad character '!', DecodeDataType(EncodeDataType(v)) = v; of one
\* that does, the leading pad characters are lost.
C18_DataTypeRoundTrip ==
    (cPhase = "decoded" /\ cDec.ok /\ Len(CodecIndex.DataType) <= DataTypeLength) =>
        LET v == CodecIndex.DataType
        IN  IF v = <<>> \/ Head(v) # "!"
            THEN cDec.index.DataType = v
            ELSE /\ cDec.index.DataType # v
                 /\ \E n \in 1..Len(v) : cDec.index.DataType = SubSeq(v, n + 1, Len(v))

\* A short data version came back from behind its padding.
C18_Witness ==
    /\ cPhase = "decoded" /\ cDec.ok
    /\ CodecIndex.DataType = <<"v", "1">>
    /\ SubSeq(cKey.key, 119, 136) = Repeat("!", 18)
    /\ cDec.index.DataType = <<"v", "1">>

C20_EmptyFillersDefaulted ==
    (CodecEncoded /\ cIn.kind = "nft" /\ YearInRange(cIn.nft.Timestamp)) =>
        /\ (cIn.nft.PrimaryFiller = <<>> /\ Len(cIn.nft.SecondaryFiller) \in {0, 2}) =>
              (cKey.ok /\ SubSeq(cKey.key, 77, 78) = <<"M", "M">>)
        /\ (cIn.nft.SecondaryFiller = <<>> /\ Len(cIn.nft.PrimaryFiller) \in {0, 2}) =>
              (cKey.ok /\ SubSeq(cKey.key, 139, 140) = <<"0", "0">>)

\* A record with both fillers empty was encoded.
C20_Witness ==
    /\ CodecEncoded /\ cIn.kind = "nft"
    /\ cIn.nft.PrimaryFiller = <<>>
    /\ cIn.nft.SecondaryFiller = <<>>
    /\ cKey.ok
    /\ SubSeq(cKey.key, 77, 78) = <<"M", "M">>
    /\ SubSeq(cKey.key, 139, 140) = <<"0", "0">>

(***************************************************************************)
(* Claims about DecodeIndex on strings as given (SpecCodec).               *)
(***************************************************************************)
\* C21: DecodeIndex (of either codec) returns an error for every string
\* shorter than 204 characters and never slices past the end of its input,
\* whatever the length.
C21_DecodeNeverPanics ==
    cPhase = "rawdecoded" =>
        \A d \in {cDec.nft, cDec.str} :
            /\ "panic" \notin DOMAIN d
            /\ Len(cIn.raw) < 204 => ~d.ok

\* A string one character short of a key was refused by both decoders.
C21_Witness ==
    /\ cPhase = "rawdecoded"
    /\ Len(cIn.raw) = 203
    /\ ~cDec.nft.ok /\ ~cDec.str.ok

\* C22: every record that DecodeIndex (of either codec) returns without
\* error has a timestamp whose year is in [2000, 2099], and a key whose date
\* segment is no number, or denotes a month outside [1, 12] or a day outside
\* [1, 31], is refused.
C22_DecodedYearInRange ==
    cPhase = "rawdecoded" =>
        \A d \in {cDec.nft, cDec.str} :
            /\ d.ok => YearInRange(d.index.Timestamp)
            /\ (Len(cIn.raw) >= 204 /\ Atoi(SubSeq(cIn.raw, 65, 70)).ok) =>
                  LET yymmdd == 999999 - Atoi(SubSeq(cIn.raw, 65, 70)).val
                  IN  ((yymmdd % 10000) \div 100 \notin 1..12 \/ yymmdd % 100 \notin 1..31)
                          => ~d.ok
            /\ (Len(cIn.raw) >= 204 /\ ~Atoi(SubSeq(cIn.raw, 65, 70)).ok) => ~d.ok

(***************************************************************************)
(* Claims about the identifier, the source and the fillers (SpecCodec).    *)
(***************************************************************************)
\* The 64 characters are the identifier: 16 hex digits of the chain id, the
\* 40 hex digits of the address and 8 hex digits of the token id.
\* The ids of the inputs are below 2^31, so the chain id starts with eight
\* zeros and both ids have a first significant digit below 8.
IsSlugOf(slug, did) ==
    /\ Len(slug) = 64
    /\ \A n \in 1..64 : IsHexDigit(slug[n])
    /\ \A n \in 1..8 : slug[n] = "0"
    /\ HexValue(slug[9]) < 8
    /\ HexFold(SubSeq(slug, 9, 16), 0) = did.ChainID
    /\ \A n \in 1..40 : HexValue(slug[16 + n]) = did.ContractAddress[n]
    /\ HexValue(slug[57]) < 8
    /\ HexFold(SubSeq(slug, 57, 64), 0) = did.TokenID

\* C23: EncodeNFTDID never fails and returns exactly 64 characters, 16 hex
\* digits for the chain id, 40 for the address and 8 for the token id, and
\* DecodeNFTDIDIndex of these characters returns the identifier: seen on the
\* subject and the producer of every key of the index.go codec.
C23_NFTDIDRoundTrip ==
    (cIn.kind = "nft" /\ RestValid) =>
        /\ CodecEncoded =>
              /\ cKey.ok
              /\ IsSlugOf(SubSeq(cKey.key, 1, 64), cIn.nft.Subject)
              /\ IsSlugOf(SubSeq(cKey.key, 141, 204), cIn.nft.Producer)
        /\ cPhase = "decoded" =>
              /\ cDec.ok
              /\ cDec.index.Subject = cIn.nft.Subject
              /\ cDec.index.Producer = cIn.nft.Producer

\* An identifier with the largest chain and token ids of the model and the
\* address ff..ff has made the round trip.
C23_Witness ==
    /\ cPhase = "decoded" /\ cIn.kind = "nft" /\ cDec.ok
    /\ cIn.nft.Subject.TokenID = 2147483647
    /\ cIn.nft.Subject.ContractAddress[1] = 15
    /\ SubSeq(cKey.key, 57, 64) = <<"7", "f", "f", "f", "f", "f", "f", "f">>
    /\ cDec.index.Subject = cIn.nft.Subject

\* C24: in every key that EncodeIndex produces, the 40 characters at offsets
\* [78, 118) are the 40 hex digits of the 20-byte source address of the
\* record, without a 0x prefix: all digits are hex digits and digit n has the
\* value of nibble n of the address.
C24_SourceDigitsKept ==
    (CodecEncoded /\ cKey.ok /\ cIn.kind \in {"nft", "str"}) =>
        LET seg == Slice(cKey.key, 78, 118)
            address == IF cIn.kind = "nft" THEN cIn.nft.Source
                       ELSE HexToAddress(cIn.str.Source)
        IN  /\ Len(seg) = AddressLength
            /\ \A n \in 1..AddressLength :
                  IsHexDigit(seg[n]) /\ HexValue(seg[n]) = address[n]

RecognisedTypes == {"dimo.status", "dimo.fingerprint", "dimo.verifiablecredential"}

\* Fillers handed to FillerToCloudType: the four of the code, padded forms
\* and others.
SomeFillers ==
    {FillerStatus, FillerFingerprint, FillerVerifiableCredential, FillerUnknown,
     <<>>, <<"M">>, <<"X", "X">>, <<"M", "A">>, <<"a">>}

\* C25: for the types status, fingerprint and verifiable credential the
\* filler of the type maps back to the type, every other type maps to the
\* unknown filler and every other filler to the unknown type, and the key
\* that EncodeCloudEvent returns for a header decodes with DecodeCloudEvent
\* to a header that has the type of the original (the unknown type for an
\* unrecognised one).
C25_TypeFillerRoundTrip ==
    (ePhase = "strict" /\ eOut.key.ok) =>
        LET type == eHdr.Type
            back == IF type \in RecognisedTypes THEN type ELSE "dimo.unknown"
        IN  /\ FillerToCloudType(CloudTypeToFiller(type)) = back
            /\ type \notin RecognisedTypes => CloudTypeToFiller(type) = FillerUnknown
            /\ \A filler \in SomeFillers :
                  filler \notin {FillerStatus, FillerFingerprint, FillerVerifiableCredential}
                      => FillerToCloudType(filler) = "dimo.unknown"
            /\ eOut.decoded.ok
            /\ eOut.decoded.cloudEvent.Type = back

\* C26: in the string-field codec EncodeIndex does not refuse a record for
\* the length of a filler: with a year the date part can carry the key is
\* produced, a filler longer than 2 characters is cut to its first 2 and a
\* shorter one is padded on the left, with M (primary) or 0 (secondary).
C26_FillersPaddedOrTruncated ==
    (cIn.kind = "str" /\ CodecEncoded /\ YearInRange(cIn.str.Timestamp)) =>
        LET primary == cIn.str.PrimaryFiller
            secondary == cIn.str.SecondaryFiller
        IN  /\ cKey.ok
            /\ Slice(cKey.key, 76, 78)
                  = IF Len(primary) > 2 THEN <<primary[1], primary[2]>>
                    ELSE [n \in 1..(2 - Len(primary)) |-> "M"] \o primary
            /\ Slice(cKey.key, 138, 140)
                  = IF Len(secondary) > 2 THEN <<secondary[1], secondary[2]>>
                    ELSE [n \in 1..(2 - Len(secondary)) |-> "0"] \o secondary

\* A record with primary filler MMM and secondary filler 000 was encoded
\* with MM and 00 in the key.
C26_Witness ==
    /\ cIn.kind = "str" /\ CodecEncoded /\ cKey.ok
    /\ cIn.str.PrimaryFiller = <<"M", "M", "M">>
    /\ cIn.str.SecondaryFiller = <<"0", "0", "0">>
    /\ Slice(cKey.key, 76, 78) = <<"M", "M">>
    /\ Slice(cKey.key, 138, 140) = <<"0", "0">>

\* A step in which a Store call returns without error.
StoreSucceeds == resp = NoResp /\ resp'.op = "store" /\ resp'.err = "none"

\* C27: a Store call that succeeds has put the payload into the blob store
\* under one key and inserted one row, and the index_key of that row is that
\* key: no other blob was written and no other row inserted.
C27_RowKeyIsBlobKey ==
    [][StoreSucceeds =>
          \E r \in BagToSet(rows') :
              /\ rows' = rows (+) SetToBag({r})
              /\ r.index_key \in DOMAIN blobs'
              /\ blobs' = PutObject(blobs, r.index_key, resp'.req.event.data)
              /\ r.index_key = resp'.key]_vars

\* A Store call has succeeded and its key holds a blob and a row.
C27_Witness ==
    /\ resp.op = "store" /\ resp.err = "none"
    /\ resp.key \in DOMAIN blobs
    /\ \E r \in BagToSet(rows) : r.index_key = resp.key

\* C28: for a header that CloudEventToCloudIndex accepts,
\* CloudEventToPartialIndex returns the record that ToIndex makes of the
\* strict result, whatever the clock reads, and EncodeIndex of it is the key
\* of EncodeCloudEvent.
C28_PartialIsStrictThenToIndex ==
    (ePhase = "strict" /\ eOut.index.ok) =>
        /\ eOut.partial = ToIndex(eOut.index.index)
        /\ eOut.partialKey = eOut.key
        /\ eOut.key.ok

\* An accepted header was converted both ways, the clock reading a later
\* day than the header's time.
C28_Witness ==
    /\ ePhase = "strict" /\ eOut.index.ok /\ eOut.key.ok
    /\ eNow # eHdr.Time
    /\ eOut.partial.Timestamp = eHdr.Time
    /\ eOut.partial.Subject = EncodeNFTDID(eOut.index.index.Subject).val
    /\ eOut.partialKey.key = eOut.key.key

\* C29: a timestamp in a location away from UTC and the same instant in UTC
\* get the same result of EncodeIndex, and in a key the date segment and the
\* time segment are those of the UTC fields of the instant.
C29_KeyDependsOnInstantOnly ==
    cPhase = "zoned" =>
        /\ cKey = cPeerKey
        /\ cKey.ok =>
              LET utc == UTC(cPeer)
              IN  /\ Atoi(Slice(cKey.key, 64, 70)).val
                        = 999999 - ((utc.year % 100) * 10000 + utc.month * 100 + utc.day)
                  /\ Slice(cKey.key, 70, 76)
                        = FormatPadded(utc.hour, 2) \o FormatPadded(utc.minute, 2)
                              \o FormatPadded(utc.second, 2)

\* C30: GetObjectsFromIndexKeys succeeds exactly when every key of the list
\* has a blob that unmarshals; it then returns one result per key, result i
\* being the blob stored under key i; when the fetch or the unmarshal of any
\* key fails it returns an error and no results.
C30_FetchInOrderOrNothing ==
    resp.op = "fetch" =>
        LET Good(k) == k \in DOMAIN blobs /\ blobs[k] # "notjson"
            n == Len(resp.keys)
        IN  /\ resp.ok <=> \A i \in 1..n : Good(resp.keys[i])
            /\ resp.ok =>
                  /\ Len(resp.data) = n
                  /\ \A i \in 1..n : resp.data[i] = blobs[resp.keys[i]]
            /\ ~resp.ok => resp.data = <<>>

\* Two keys with different blobs were fetched in one call, and the results
\* came in the order of the keys.
C30_Witness ==
    /\ resp.op = "fetch" /\ resp.ok /\ Len(resp.keys) = 2
    /\ resp.keys[1] # resp.keys[2]
    /\ resp.data[1] # resp.data[2]
    /\ resp.data = <<blobs[resp.keys[1]], blobs[resp.keys[2]]>>

====
